---- MODULE Spec2Model ----
(***************************************************************************)
(* A model of the meal planner's Claude CLI wrapper (src/claude_client.py): *)
(* call_claude launches the CLI as a child process, drains its two pipes    *)
(* with two reader threads under a deadline, and extracts the structured    *)
(* payload from the JSON envelope the CLI printed on stdout.  Around it,    *)
(* the two cron programs that call it (src/meal_planner.py and              *)
(* src/meal_regenerator.py), the history file (src/csv_history.py) and the  *)
(* reading of replies (src/email_reader.py).                                *)
(*                                                                          *)
(* Text is a sequence of one-character strings.  JSON values are records    *)
(* tagged by t; a Python dict is an ordered key sequence with a parallel    *)
(* value sequence, and Python's None is the JSON null.                      *)
(***************************************************************************)
EXTENDS Integers, Sequences, FiniteSets, TLC

VARIABLES
    pc,            \* position of the calling thread inside call_claude
    child,         \* the child process: "none", "running", "exited", "killed", "reaped"
    exitCode,      \* the exit status the child left (meaningful once it is not running)
    returncode,    \* proc.returncode: NoCode until the caller has reaped the child
    desc,          \* a descendant of the child that inherited the pipes: "none", "holding", "gone"
    scenario,      \* what the child is going to print: [out |-> text, err |-> raw lines]
    outSent,       \* number of characters of scenario.out the child has written to stdout
    errSent,       \* number of lines of scenario.err the child has written to stderr
    outPipe,       \* stdout pipe: the chunks written and not yet read
    errPipe,       \* stderr pipe: the raw lines written and not yet read
    rdOut,         \* thread t_out: "new", "reading", "done"
    rdErr,         \* thread t_err: "new", "reading", "done"
    outBuf,        \* what pipe.read() has accumulated so far inside t_out
    stdout_chunks, \* the list stdout_chunks
    stderr_lines,  \* the list stderr_lines
    logged,        \* the "[claude] ..." lines logged by stream_stderr, in order
    errStep,       \* where t_err stands in its loop: "readline", "log", "append"
    line,          \* the local line of stream_stderr
    now,           \* wall clock, in seconds since call_claude was entered
    joinStart,     \* the time at which the pending t.join(timeout=5) was entered
    timedOut,      \* proc.wait raised TimeoutExpired
    stdout_text,   \* the local stdout_text
    response,      \* the local response
    structured,    \* the local structured
    diag,          \* the two log.error lines of the timeout path
    outcome,       \* how call_claude ended: a value returned or an exception raised
    environ,       \* os.environ, the inherited process environment
    env,           \* what get_claude_env returned
    meals,         \* the argument of validate_meals
    valid,         \* how validate_meals ended: the list returned or an exception raised
    warned,        \* the log.warning lines of validate_meals, in order
    csv,           \* the history file CSV_PATH: whether it exists, and its data rows
    mail,          \* the emails main has tried to send, in order
    caught,        \* the exception that left the try block of main
    exit_status,   \* the exit status of the process: NoCode while it runs
    program,       \* which of the two cron programs runs: "meal_planner", "meal_regenerator"
    csv_at_entry,  \* the history file as the program found it when main was entered
    inbox,         \* the mailbox: the replies to the meal-plan email, each unread or read
    replies,       \* the local replies of meal_regenerator.main
    date           \* the local date of meal_regenerator.main; the date argument of csv_history

vars == <<pc, child, exitCode, returncode, desc, scenario, outSent, errSent,
          outPipe, errPipe, rdOut, rdErr, outBuf, stdout_chunks, stderr_lines,
          logged, errStep, line, now, joinStart, timedOut, stdout_text, response,
          structured, diag, outcome, environ, env, meals, valid, warned,
          csv, mail, caught, exit_status, program, csv_at_entry, inbox, replies, date>>

\* ------------------------------------------------------------------ text

SP == " "
QUOTE == "\""
BACKSLASH == "\\"
LBRACE == "{"
RBRACE == "}"
LBRACK == "["
RBRACK == "]"
COLON == ":"
COMMA == ","

DigitChars == <<"0", "1", "2", "3", "4", "5", "6", "7", "8", "9">>
Digits == {DigitChars[i] : i \in 1..10}
DigitVal(c) == (CHOOSE i \in 1..10 : DigitChars[i] = c) - 1

KEY_PRIMARY == <<"s", "t", "r", "u", "c", "t", "u", "r", "e", "d", "_", "o", "u", "t", "p", "u", "t">>
KEY_SECONDARY == <<"r", "e", "s", "u", "l", "t">>
KEY_MEALS == <<"m", "e", "a", "l", "s">>
KEY_TYPE == <<"t", "y", "p", "e">>
LIT_NULL == <<"n", "u", "l", "l">>
LIT_TRUE == <<"t", "r", "u", "e">>
LIT_FALSE == <<"f", "a", "l", "s", "e">>

Min(a, b) == IF a < b THEN a ELSE b
Max(a, b) == IF a > b THEN a ELSE b

\* s[:n]
Head_n(s, n) == SubSeq(s, 1, Min(n, Len(s)))
\* s[-n:]
Tail_n(s, n) == SubSeq(s, Max(1, Len(s) - n + 1), Len(s))

RECURSIVE Concat(_)
\* "".join(parts)
Concat(parts) ==
    IF parts = <<>> THEN <<>> ELSE Head(parts) \o Concat(Tail(parts))

RECURSIVE JoinWith(_, _)
\* sep.join(parts)
JoinWith(sep, parts) ==
    IF parts = <<>> THEN <<>>
    ELSE IF Len(parts) = 1 THEN Head(parts)
    ELSE Head(parts) \o sep \o JoinWith(sep, Tail(parts))

RECURSIVE RStrip(_)
\* str.rstrip()
RStrip(s) ==
    IF s # <<>> /\ s[Len(s)] = SP THEN RStrip(SubSeq(s, 1, Len(s) - 1)) ELSE s

RECURSIVE LStrip(_)
LStrip(s) ==
    IF s # <<>> /\ Head(s) = SP THEN LStrip(Tail(s)) ELSE s

\* str.strip()
Strip(s) == LStrip(RStrip(s))

\* ------------------------------------------------------------ JSON values

JNull == [t |-> "null"]
JBool(b) == [t |-> "bool", b |-> b]
JNum(n) == [t |-> "num", n |-> n]
JStr(s) == [t |-> "str", s |-> s]
JArr(items) == [t |-> "arr", items |-> items]
JObj(keys, vals) == [t |-> "obj", keys |-> keys, vals |-> vals]

\* Python's None
PyNone == JNull

KeyIndex(keys, k) ==
    IF \E i \in 1..Len(keys) : keys[i] = k
    THEN CHOOSE i \in 1..Len(keys) : keys[i] = k
    ELSE 0

\* d.get(k, default)
DictGet(d, k, default) ==
    IF KeyIndex(d.keys, k) = 0 THEN default ELSE d.vals[KeyIndex(d.keys, k)]

\* d[k] = v : a repeated key keeps its first position and takes the last value
DictPut(d, k, v) ==
    IF KeyIndex(d.keys, k) = 0
    THEN JObj(Append(d.keys, k), Append(d.vals, v))
    ELSE JObj(d.keys, [d.vals EXCEPT ![KeyIndex(d.keys, k)] = v])

\* ------------------------------------------------------------ json.loads

ParseFail == [ok |-> FALSE, val |-> JNull, pos |-> 0]
ParseOk(v, p) == [ok |-> TRUE, val |-> v, pos |-> p]

RECURSIVE SkipWs(_, _)
SkipWs(s, i) ==
    IF i <= Len(s) /\ s[i] = SP THEN SkipWs(s, i + 1) ELSE i

HasLit(s, i, lit) ==
    /\ i + Len(lit) - 1 <= Len(s)
    /\ SubSeq(s, i, i + Len(lit) - 1) = lit

\* the first position from i on that holds a quote or a backslash, 0 if none does
NextSpecial(s, i) ==
    IF \E j \in i..Len(s) : s[j] \in {QUOTE, BACKSLASH}
    THEN CHOOSE j \in i..Len(s) :
            s[j] \in {QUOTE, BACKSLASH} /\ \A k \in i..(j - 1) : s[k] \notin {QUOTE, BACKSLASH}
    ELSE 0

RECURSIVE ParseString(_, _, _)
\* i is the position after the opening quote, or after the last escape read;
\* the characters up to the next quote or backslash are taken as they are
ParseString(s, i, acc) ==
    LET j == NextSpecial(s, i) IN
    IF j = 0 THEN ParseFail
    ELSE IF s[j] = QUOTE THEN ParseOk(JStr(acc \o SubSeq(s, i, j - 1)), j + 1)
    ELSE IF j + 1 <= Len(s) /\ s[j + 1] \in {QUOTE, BACKSLASH}
         THEN ParseString(s, j + 2, acc \o SubSeq(s, i, j - 1) \o <<s[j + 1]>>)
         ELSE ParseFail

RECURSIVE ParseDigits(_, _, _)
ParseDigits(s, i, n) ==
    IF i <= Len(s) /\ s[i] \in Digits
    THEN ParseDigits(s, i + 1, 10 * n + DigitVal(s[i]))
    ELSE ParseOk(JNum(n), i)

\* 0 | [1-9][0-9]*
ParseNumber(s, i) ==
    IF s[i] = "0" THEN ParseOk(JNum(0), i + 1) ELSE ParseDigits(s, i, 0)

RECURSIVE ParseValue(_, _)
RECURSIVE ParseMembers(_, _, _)
RECURSIVE ParseElements(_, _, _)

\* i is the position of the opening quote of the next key
ParseMembers(s, i, d) ==
    IF i > Len(s) \/ s[i] # QUOTE THEN ParseFail
    ELSE LET k == ParseString(s, i + 1, <<>>) IN
         IF ~k.ok THEN ParseFail
         ELSE LET c == SkipWs(s, k.pos) IN
              IF c > Len(s) \/ s[c] # COLON THEN ParseFail
              ELSE LET v == ParseValue(s, c + 1) IN
                   IF ~v.ok THEN ParseFail
                   ELSE LET e == SkipWs(s, v.pos)
                            d2 == DictPut(d, k.val.s, v.val)
                        IN IF e > Len(s) THEN ParseFail
                           ELSE IF s[e] = RBRACE THEN ParseOk(d2, e + 1)
                           ELSE IF s[e] = COMMA
                                THEN ParseMembers(s, SkipWs(s, e + 1), d2)
                           ELSE ParseFail

\* i is the position at which the next element starts
ParseElements(s, i, items) ==
    LET v == ParseValue(s, i) IN
    IF ~v.ok THEN ParseFail
    ELSE LET e == SkipWs(s, v.pos) IN
         IF e > Len(s) THEN ParseFail
         ELSE IF s[e] = RBRACK THEN ParseOk(JArr(Append(items, v.val)), e + 1)
         ELSE IF s[e] = COMMA THEN ParseElements(s, e + 1, Append(items, v.val))
         ELSE ParseFail

ParseValue(s, i0) ==
    LET i == SkipWs(s, i0) IN
    IF i > Len(s) THEN ParseFail
    ELSE IF s[i] = LBRACE
         THEN LET j == SkipWs(s, i + 1) IN
              IF j <= Len(s) /\ s[j] = RBRACE
              THEN ParseOk(JObj(<<>>, <<>>), j + 1)
              ELSE ParseMembers(s, j, JObj(<<>>, <<>>))
    ELSE IF s[i] = LBRACK
         THEN LET j == SkipWs(s, i + 1) IN
              IF j <= Len(s) /\ s[j] = RBRACK
              THEN ParseOk(JArr(<<>>), j + 1)
              ELSE ParseElements(s, j, <<>>)
    ELSE IF s[i] = QUOTE THEN ParseString(s, i + 1, <<>>)
    ELSE IF s[i] \in Digits THEN ParseNumber(s, i)
    ELSE IF HasLit(s, i, LIT_NULL) THEN ParseOk(JNull, i + 4)
    ELSE IF HasLit(s, i, LIT_TRUE) THEN ParseOk(JBool(TRUE), i + 4)
    ELSE IF HasLit(s, i, LIT_FALSE) THEN ParseOk(JBool(FALSE), i + 5)
    ELSE ParseFail

\* json.loads(text): one value, then nothing but whitespace
JsonLoads(text) ==
    LET v == ParseValue(text, 1) IN
    IF v.ok /\ SkipWs(text, v.pos) = Len(text) + 1 THEN v ELSE ParseFail

\* ------------------------------------------- the CLI's JSON serialisation

RECURSIVE NumChars(_)
NumChars(n) ==
    IF n < 10 THEN <<DigitChars[n + 1]>>
    ELSE NumChars(n \div 10) \o <<DigitChars[(n % 10) + 1]>>

RECURSIVE Escape(_)
\* every quote and backslash of s preceded by a backslash, s taken by halves
Escape(s) ==
    IF s = <<>> THEN <<>>
    ELSE IF Len(s) = 1
         THEN (IF s[1] \in {QUOTE, BACKSLASH} THEN <<BACKSLASH, s[1]>> ELSE s)
    ELSE Escape(SubSeq(s, 1, Len(s) \div 2)) \o Escape(SubSeq(s, Len(s) \div 2 + 1, Len(s)))

RECURSIVE Encode(_, _)
\* the text the CLI prints for value v, with `gap` after each "," and ":"
Encode(v, gap) ==
    IF v.t = "null" THEN LIT_NULL
    ELSE IF v.t = "bool" THEN (IF v.b THEN LIT_TRUE ELSE LIT_FALSE)
    ELSE IF v.t = "num" THEN NumChars(v.n)
    ELSE IF v.t = "str" THEN <<QUOTE>> \o Escape(v.s) \o <<QUOTE>>
    ELSE IF v.t = "arr"
         THEN <<LBRACK>>
              \o JoinWith(<<COMMA>> \o gap, [i \in 1..Len(v.items) |-> Encode(v.items[i], gap)])
              \o <<RBRACK>>
    ELSE <<LBRACE>>
         \o JoinWith(<<COMMA>> \o gap,
                     [i \in 1..Len(v.keys) |->
                         <<QUOTE>> \o Escape(v.keys[i]) \o <<QUOTE, COLON>> \o gap
                         \o Encode(v.vals[i], gap)])
         \o <<RBRACE>>

\* --------------------------------------------------------- program constants

\* config.CLAUDE_TIMEOUT_SECONDS
CLAUDE_TIMEOUT_SECONDS == 900
\* t_out.join(timeout=5), t_err.join(timeout=5)
JOIN_TIMEOUT == 5
\* the [:500] of the diagnostics
DIAG_LIMIT == 500
\* config.NUM_MEALS, config.NUM_NOTION_MEALS, config.NUM_WEB_MEALS
NUM_MEALS == 4
NUM_NOTION_MEALS == 3
NUM_WEB_MEALS == 1

\* ------------------------------------------------------------------ bounds

\* the number of pending writes a pipe holds before a further write blocks
PipeCap == 2
\* the number of characters the child hands to one write on stdout
ChunkLen == 24
\* the length of the long stderr line of the scenarios
LongLen == 300

\* -------------------------------------------------- what the child may print

Obj1(k, v) == JObj(<<k>>, <<v>>)
Obj2(k1, v1, k2, v2) == JObj(<<k1, k2>>, <<v1, v2>>)
EmptyObj == JObj(<<>>, <<>>)
\* a string holding the JSON encoding of v
Txt(v) == JStr(Encode(v, <<>>))
TXT_OK == <<"o", "k">>

\* {"meals": []} and {"meals": [7]}
P_EMPTY == Obj1(KEY_MEALS, JArr(<<>>))
P_ONE == Obj1(KEY_MEALS, JArr(<<JNum(7)>>))

\* envelopes that carry something under the primary key
PrimaryEnvelopes ==
    { Obj1(KEY_PRIMARY, P_ONE),
      Obj2(KEY_PRIMARY, P_ONE, KEY_SECONDARY, JStr(TXT_OK)),
      Obj2(KEY_SECONDARY, Txt(P_EMPTY), KEY_PRIMARY, P_ONE),
      Obj2(KEY_PRIMARY, P_ONE, KEY_SECONDARY, P_EMPTY),
      Obj2(KEY_TYPE, JStr(TXT_OK), KEY_PRIMARY, P_EMPTY),
      Obj1(KEY_PRIMARY, EmptyObj),
      Obj1(KEY_PRIMARY, JArr(<<>>)),
      Obj1(KEY_PRIMARY, JNum(0)),
      Obj1(KEY_PRIMARY, JBool(FALSE)),
      Obj1(KEY_PRIMARY, JStr(<<>>)),
      Obj1(KEY_PRIMARY, JNull),
      Obj2(KEY_PRIMARY, JNull, KEY_SECONDARY, Txt(P_EMPTY)),
      Obj2(KEY_PRIMARY, JNull, KEY_SECONDARY, JStr(TXT_OK)) }

\* envelopes without the primary key
SecondaryEnvelopes ==
    { Obj1(KEY_SECONDARY, P_EMPTY),
      Obj1(KEY_SECONDARY, EmptyObj),
      Obj1(KEY_SECONDARY, Txt(P_EMPTY)),
      Obj1(KEY_SECONDARY, Txt(EmptyObj)),
      Obj1(KEY_SECONDARY, JStr(<<SP>> \o Encode(P_ONE, <<SP>>) \o <<SP>>)),
      Obj1(KEY_SECONDARY, Txt(Obj1(KEY_TYPE, JStr(<<QUOTE, BACKSLASH>>)))),
      Obj2(KEY_TYPE, JStr(TXT_OK), KEY_SECONDARY, Txt(P_ONE)),
      Obj2(KEY_TYPE, JStr(TXT_OK), KEY_SECONDARY, JStr(TXT_OK)),
      Obj1(KEY_SECONDARY, Txt(JNull)),
      Obj1(KEY_SECONDARY, Txt(JArr(<<JNum(1)>>))),
      Obj1(KEY_SECONDARY, Txt(JNum(5))),
      Obj1(KEY_SECONDARY, Txt(JStr(TXT_OK))),
      Obj1(KEY_SECONDARY, JStr(<<>>)),
      Obj1(KEY_SECONDARY, JStr(<<SP, SP>>)),
      Obj1(KEY_SECONDARY, JStr(TXT_OK)),
      Obj1(KEY_SECONDARY, JStr(<<LBRACE, QUOTE>>)),
      Obj1(KEY_SECONDARY, JNum(5)),
      Obj1(KEY_SECONDARY, JArr(<<P_EMPTY>>)),
      Obj1(KEY_SECONDARY, JNull),
      Obj1(KEY_SECONDARY, JBool(TRUE)),
      EmptyObj,
      Obj1(KEY_TYPE, JStr(TXT_OK)),
      Obj2(KEY_TYPE, JStr(TXT_OK), KEY_MEALS, JArr(<<>>)) }

\* valid JSON documents that are not objects
NonObjectDocs == { JArr(<<P_EMPTY>>), JStr(TXT_OK), JNum(5), JNull }

Envelopes == PrimaryEnvelopes \cup SecondaryEnvelopes

\* envelopes also printed with a space after each "," and ":"
SpacedEnvelopes ==
    { Obj2(KEY_PRIMARY, P_ONE, KEY_SECONDARY, P_EMPTY),
      Obj1(KEY_SECONDARY, Txt(P_EMPTY)),
      Obj2(KEY_TYPE, JStr(TXT_OK), KEY_MEALS, JArr(<<>>)) }

\* texts that are no JSON document
MalformedTexts ==
    { <<>>,
      <<"n", "o", "t", " ", "j", "s", "o", "n">>,
      <<LBRACE, QUOTE>> \o KEY_SECONDARY \o <<QUOTE, COLON>>,
      Encode(Obj1(KEY_PRIMARY, P_ONE), <<>>) \o <<SP, "x">>,
      <<LBRACE, QUOTE>> \o KEY_SECONDARY \o <<QUOTE, COLON, "0", "1", RBRACE>>,
      <<LBRACE, QUOTE>> \o KEY_PRIMARY \o <<QUOTE, COLON, LBRACK, "1", COMMA, RBRACK, RBRACE>> }

\* texts with a repeated key: the last value wins, the first position stays
RepeatedKeyTexts ==
    { <<LBRACE, QUOTE>> \o KEY_SECONDARY \o <<QUOTE, COLON, "1", COMMA, QUOTE>>
        \o KEY_SECONDARY \o <<QUOTE, COLON>> \o Encode(P_EMPTY, <<>>) \o <<RBRACE>> }

StdoutTexts ==
    { Encode(v, <<>>) : v \in Envelopes \cup NonObjectDocs }
    \cup { Encode(v, <<SP>>) : v \in SpacedEnvelopes }
    \cup MalformedTexts \cup RepeatedKeyTexts

LongLine == [i \in 1..LongLen |-> IF i = 1 THEN "h" ELSE IF i = LongLen THEN "t" ELSE "x"]
LINE_WARN == <<"w", "a", "r", "n">>
LINE_ERR == <<"e", "r", "r", SP, "1", SP, SP>>
LINE_BLANK == <<SP>>

\* what the child may print on stderr, as raw lines (without the newline)
StderrScripts ==
    { <<>>,
      <<LINE_WARN>>,
      <<LINE_BLANK, LINE_ERR>>,
      <<LINE_ERR, <<>>, LINE_WARN>>,
      <<LongLine, LongLine>>,
      <<LINE_WARN, LongLine, LongLine>> }

DefaultOut == Encode(Obj1(KEY_PRIMARY, P_ONE), <<>>)
DefaultErr == <<LINE_WARN>>

Scenarios ==
    { [out |-> o, err |-> DefaultErr] : o \in StdoutTexts }
    \cup { [out |-> DefaultOut, err |-> e] : e \in StderrScripts }

ExitCodes == {0, 1, 2}

\* ---------------------------------------------------------- get_claude_env

ENV_PATH == <<"P", "A", "T", "H">>
ENV_HOME == <<"H", "O", "M", "E">>
ENV_LANG == <<"L", "A", "N", "G">>
ENV_CLAUDECODE == <<"C", "L", "A", "U", "D", "E", "C", "O", "D", "E">>

LOCAL_BIN == <<"/", ".", "l", "o", "c", "a", "l", "/", "b", "i", "n">>
DIR_BREW_BIN == <<"/", "o", "p", "t", "/", "h", "o", "m", "e", "b", "r", "e", "w", "/", "b", "i", "n">>
DIR_BREW_SBIN == <<"/", "o", "p", "t", "/", "h", "o", "m", "e", "b", "r", "e", "w", "/", "s", "b", "i", "n">>
DIR_USR_LOCAL_BIN == <<"/", "u", "s", "r", "/", "l", "o", "c", "a", "l", "/", "b", "i", "n">>
DIR_USR_BIN == <<"/", "u", "s", "r", "/", "b", "i", "n">>
DIR_BIN == <<"/", "b", "i", "n">>
DIR_USR_SBIN == <<"/", "u", "s", "r", "/", "s", "b", "i", "n">>
DIR_SBIN == <<"/", "s", "b", "i", "n">>

\* the home directory of the password database, used when HOME is not set
PW_HOME == <<"/", "r">>
\* a home directory set through HOME
SET_HOME == <<"/", "h">>

\* Path.home(): HOME if the environment sets it, else the password database
HomeDir(e) == DictGet(e, ENV_HOME, PW_HOME)

\* required_paths
RequiredPaths(e) ==
    << HomeDir(e) \o LOCAL_BIN, DIR_BREW_BIN, DIR_BREW_SBIN, DIR_USR_LOCAL_BIN,
       DIR_USR_BIN, DIR_BIN, DIR_USR_SBIN, DIR_SBIN >>

\* the position of the first sep in text, 0 if there is none
Find(text, sep) ==
    IF \E i \in 1..Len(text) : text[i] = sep
    THEN CHOOSE i \in 1..Len(text) : text[i] = sep /\ \A j \in 1..(i - 1) : text[j] # sep
    ELSE 0

RECURSIVE Split(_, _)
\* text.split(sep), sep one character: the pieces between the separators, so
\* that "".split(":") is [""] and "a:".split(":") is ["a", ""]
Split(text, sep) ==
    IF Find(text, sep) = 0 THEN <<text>>
    ELSE <<SubSeq(text, 1, Find(text, sep) - 1)>>
         \o Split(SubSeq(text, Find(text, sep) + 1, Len(text)), sep)

\* p in existing
Contains(existing, p) == \E i \in 1..Len(existing) : existing[i] = p

RECURSIVE InsertMissing_Forward(_, _, _)
\* the loop without reversed(): the first required path is looked at first
InsertMissing_Forward(existing, required, k) ==
    IF k = 0 THEN existing
    ELSE InsertMissing_Forward(IF Contains(existing, required[Len(required) - k + 1])
                               THEN existing
                               ELSE <<required[Len(required) - k + 1]>> \o existing,
                               required, k - 1)

RECURSIVE InsertMissing(_, _, _)
\* for p in reversed(required_paths): if p not in existing: existing.insert(0, p)
\* k counts the required paths still to look at, from the last one down
InsertMissing(existing, required, k) ==
    IF k = 0 THEN existing
    ELSE InsertMissing(IF Contains(existing, required[k])
                       THEN existing
                       ELSE <<required[k]>> \o existing,
                       required, k - 1)

\* d.pop(k, None)
DictPop(d, k) ==
    LET keep == {i \in 1..Len(d.keys) : d.keys[i] # k}
        Nth(n) == CHOOSE i \in keep : Cardinality({j \in keep : j < i}) = n - 1
    IN JObj([n \in 1..Cardinality(keep) |-> d.keys[Nth(n)]],
            [n \in 1..Cardinality(keep) |-> d.vals[Nth(n)]])

\* the PATH get_claude_env builds out of the inherited one
BuildPath(e) ==
    JoinWith(<<COLON>>,
             InsertMissing(Split(DictGet(e, ENV_PATH, <<>>), COLON),
                           RequiredPaths(e), Len(RequiredPaths(e))))

\* get_claude_env(): os.environ as the call leaves it, and the dict returned
GetClaudeEnv(e) ==
    [environ |-> e,
     env |-> DictPop(DictPut(e, ENV_PATH, BuildPath(e)), ENV_CLAUDECODE)]

\* ------------------------------------------------------------ the outcome

NoCode == <<>>
NoOutcome == [kind |-> "none", val |-> PyNone, keys |-> <<>>, code |-> NoCode, text |-> <<>>]
\* return structured
Returned(v) == [NoOutcome EXCEPT !.kind = "returned", !.val = v]
\* subprocess.TimeoutExpired, re-raised
TimeoutExpired == [NoOutcome EXCEPT !.kind = "timeout"]
\* RuntimeError("Claude CLI exited with code {code}\nstderr: {text}")
NonZeroExit(code, text) == [NoOutcome EXCEPT !.kind = "nonzero_exit", !.code = code, !.text = text]
\* json.JSONDecodeError out of json.loads(stdout_text)
JSONDecodeError == [NoOutcome EXCEPT !.kind = "json_error"]
\* AttributeError: the parsed document has no .get
AttributeError == [NoOutcome EXCEPT !.kind = "attribute_error"]
\* TypeError: the value cannot be iterated
TypeError == [NoOutcome EXCEPT !.kind = "type_error"]
\* RuntimeError("No structured_output in Claude response. Keys: {keys}")
MissingPayload(keys) == [NoOutcome EXCEPT !.kind = "missing_payload", !.keys = keys]

NoDiag == [out |-> <<>>, err |-> <<>>]

\* a pipe is at end-of-stream once it is empty and nobody holds its write end
AtEof(pipe) == pipe = <<>> /\ child \in {"exited", "killed", "reaped"} /\ desc # "holding"

\* proc.wait(timeout=CLAUDE_TIMEOUT_SECONDS) gives up at time t
WaitExpired(t) == t >= CLAUDE_TIMEOUT_SECONDS

\* a join that never gives up: t.join()
JoinExpired_Never(start, t) == FALSE

\* t.join(timeout=5), entered at time start, gives up at time t
JoinExpired(start, t) == t >= start + JOIN_TIMEOUT

\* the instants the clock is sampled at, besides the end of a pending timed join
TimePoints ==
    { CLAUDE_TIMEOUT_SECONDS \div 2,
      CLAUDE_TIMEOUT_SECONDS,
      CLAUDE_TIMEOUT_SECONDS + 3,
      CLAUDE_TIMEOUT_SECONDS + 2 * JOIN_TIMEOUT,
      2 * CLAUDE_TIMEOUT_SECONDS }

\* the environment the process inherits when call_claude alone is looked at
DefaultEnviron == JObj(<<ENV_PATH>>, <<DIR_USR_BIN \o <<COLON>> \o DIR_BIN>>)

NoEnv == JObj(<<>>, <<>>)
NoMeals == JArr(<<>>)

\* call_claude has not been entered
CallInit ==
    /\ child = "none"
    /\ exitCode = NoCode
    /\ returncode = NoCode
    /\ desc = "none"
    /\ outSent = 0
    /\ errSent = 0
    /\ outPipe = <<>>
    /\ errPipe = <<>>
    /\ rdOut = "new"
    /\ rdErr = "new"
    /\ outBuf = <<>>
    /\ stdout_chunks = <<>>
    /\ stderr_lines = <<>>
    /\ logged = <<>>
    /\ errStep = "readline"
    /\ line = <<>>
    /\ now = 0
    /\ joinStart = 0
    /\ timedOut = FALSE
    /\ stdout_text = <<>>
    /\ response = PyNone
    /\ structured = PyNone
    /\ diag = NoDiag
    /\ outcome = NoOutcome

\* the history file does not exist
NoFile == [exists |-> FALSE, rows |-> <<>>]
\* no date: Python's None where a date text is expected
NoDate == <<>>

\* main has not been entered
MainInit ==
    /\ csv = NoFile
    /\ mail = <<>>
    /\ caught = NoOutcome
    /\ exit_status = NoCode
    /\ program = "none"
    /\ csv_at_entry = NoFile
    /\ inbox = <<>>
    /\ replies = <<>>
    /\ date = NoDate

\* validate_meals has not been entered
ValidateInit ==
    /\ meals = NoMeals
    /\ valid = NoOutcome
    /\ warned = <<>>

Init ==
    /\ pc = "popen"
    /\ scenario \in Scenarios
    /\ CallInit
    /\ environ = DefaultEnviron
    /\ env = NoEnv
    /\ ValidateInit
    /\ MainInit

\* ------------------------------------------------------- the child process

\* the state outside call_claude
MainVars == <<csv, mail, caught, exit_status, program, csv_at_entry, inbox, replies, date>>
OuterVars == <<environ, env, meals, valid, warned, csv, mail, caught, exit_status,
               program, csv_at_entry, inbox, replies, date>>

ChildVars == <<child, exitCode, desc, outSent, errSent>>
ReaderVars == <<rdOut, rdErr, outBuf, stdout_chunks, stderr_lines, logged, errStep, line>>
LocalVars == <<stdout_text, response, structured, diag, outcome, timedOut, joinStart, returncode>>

\* the child writes the next chunk of its output to stdout; blocks on a full pipe
ChildWriteOut ==
    /\ pc # "done"
    /\ child = "running"
    /\ outSent < Len(scenario.out)
    /\ Len(outPipe) < PipeCap
    /\ LET n == Min(ChunkLen, Len(scenario.out) - outSent) IN
       /\ outPipe' = Append(outPipe, SubSeq(scenario.out, outSent + 1, outSent + n))
       /\ outSent' = outSent + n
    /\ UNCHANGED <<pc, child, exitCode, desc, errSent, errPipe, scenario, now>>
    /\ UNCHANGED ReaderVars
    /\ UNCHANGED LocalVars
    /\ UNCHANGED OuterVars

\* the child writes its next line to stderr; blocks on a full pipe
ChildWriteErr ==
    /\ pc # "done"
    /\ child = "running"
    /\ errSent < Len(scenario.err)
    /\ Len(errPipe) < PipeCap
    /\ errPipe' = Append(errPipe, scenario.err[errSent + 1])
    /\ errSent' = errSent + 1
    /\ UNCHANGED <<pc, child, exitCode, desc, outSent, outPipe, scenario, now>>
    /\ UNCHANGED ReaderVars
    /\ UNCHANGED LocalVars
    /\ UNCHANGED OuterVars

\* the child starts a process of its own, which inherits both pipes
ChildSpawn ==
    /\ pc # "done"
    /\ child = "running"
    /\ desc = "none"
    /\ desc' = "holding"
    /\ UNCHANGED <<pc, child, exitCode, outSent, errSent, outPipe, errPipe, scenario, now>>
    /\ UNCHANGED ReaderVars
    /\ UNCHANGED LocalVars
    /\ UNCHANGED OuterVars

\* the descendant exits and lets go of the pipes
DescExit ==
    /\ pc # "done"
    /\ desc = "holding"
    /\ desc' = "gone"
    /\ UNCHANGED <<pc, child, exitCode, outSent, errSent, outPipe, errPipe, scenario, now>>
    /\ UNCHANGED ReaderVars
    /\ UNCHANGED LocalVars
    /\ UNCHANGED OuterVars

\* the child exits by itself, at any point of its output
ChildExit ==
    /\ pc # "done"
    /\ child = "running"
    /\ \E rc \in ExitCodes : exitCode' = <<rc>>
    /\ child' = "exited"
    /\ UNCHANGED <<pc, desc, outSent, errSent, outPipe, errPipe, scenario, now>>
    /\ UNCHANGED ReaderVars
    /\ UNCHANGED LocalVars
    /\ UNCHANGED OuterVars

\* ------------------------------------------------------- the reader threads

\* t_out can take data: it runs, and its own pipe holds some
CanReadStdout == rdOut = "reading" /\ outPipe # <<>>

\* one thread draining stdout to its end before it turns to stderr
CanStreamStderr_AfterStdout == rdErr = "reading" /\ errPipe # <<>> /\ rdOut = "done"

\* t_err can take a line: it runs, and its own pipe holds one
CanStreamStderr == rdErr = "reading" /\ errPipe # <<>>

\* read_stdout: pipe.read() takes what is in the pipe
ReadStdoutData ==
    /\ pc # "done"
    /\ CanReadStdout
    /\ outBuf' = outBuf \o Head(outPipe)
    /\ outPipe' = Tail(outPipe)
    /\ UNCHANGED <<pc, errPipe, scenario, now, rdOut, rdErr, stdout_chunks, stderr_lines, logged, errStep, line>>
    /\ UNCHANGED ChildVars
    /\ UNCHANGED LocalVars
    /\ UNCHANGED OuterVars

\* read_stdout: pipe.read() returns at end-of-stream, the text is appended, the pipe closed
ReadStdoutEof ==
    /\ pc # "done"
    /\ rdOut = "reading"
    /\ AtEof(outPipe)
    /\ stdout_chunks' = Append(stdout_chunks, outBuf)
    /\ rdOut' = "done"
    /\ UNCHANGED <<pc, outPipe, errPipe, scenario, now, rdErr, outBuf, stderr_lines, logged, errStep, line>>
    /\ UNCHANGED ChildVars
    /\ UNCHANGED LocalVars
    /\ UNCHANGED OuterVars

\* a loop that forgets the `if line:` test
Kept_KeepBlank(raw) == <<RStrip(raw)>>

\* what stream_stderr keeps of one raw line: <<line.rstrip()>>, or nothing if that is empty
Kept(raw) == IF RStrip(raw) = <<>> THEN <<>> ELSE <<RStrip(raw)>>

\* stream_stderr: pipe.readline() returns a line; line = line.rstrip(); if line:
StreamStderrLine ==
    /\ pc # "done"
    /\ CanStreamStderr
    /\ errStep = "readline"
    /\ line' = RStrip(Head(errPipe))
    /\ errStep' = IF Kept(Head(errPipe)) = <<>> THEN "readline" ELSE "log"
    /\ errPipe' = Tail(errPipe)
    /\ UNCHANGED <<pc, outPipe, scenario, now, rdOut, rdErr, outBuf, stdout_chunks,
                   stderr_lines, logged>>
    /\ UNCHANGED ChildVars
    /\ UNCHANGED LocalVars
    /\ UNCHANGED OuterVars

\* stream_stderr: log.info(f"[claude] {line}")
StreamStderrLog ==
    /\ pc # "done"
    /\ rdErr = "reading"
    /\ errStep = "log"
    /\ logged' = Append(logged, line)
    /\ errStep' = "append"
    /\ UNCHANGED <<pc, outPipe, errPipe, scenario, now, rdOut, rdErr, outBuf, stdout_chunks,
                   stderr_lines, line>>
    /\ UNCHANGED ChildVars
    /\ UNCHANGED LocalVars
    /\ UNCHANGED OuterVars

\* stream_stderr: stderr_lines.append(line)
StreamStderrAppend ==
    /\ pc # "done"
    /\ rdErr = "reading"
    /\ errStep = "append"
    /\ stderr_lines' = Append(stderr_lines, line)
    /\ errStep' = "readline"
    /\ UNCHANGED <<pc, outPipe, errPipe, scenario, now, rdOut, rdErr, outBuf, stdout_chunks,
                   logged, line>>
    /\ UNCHANGED ChildVars
    /\ UNCHANGED LocalVars
    /\ UNCHANGED OuterVars

\* stream_stderr: readline returns "" at end-of-stream, the pipe is closed
StreamStderrEof ==
    /\ pc # "done"
    /\ rdErr = "reading"
    /\ errStep = "readline"
    /\ AtEof(errPipe)
    /\ rdErr' = "done"
    /\ UNCHANGED <<pc, outPipe, errPipe, scenario, now, rdOut, outBuf, stdout_chunks,
                   stderr_lines, logged, errStep, line>>
    /\ UNCHANGED ChildVars
    /\ UNCHANGED LocalVars
    /\ UNCHANGED OuterVars

\* ---------------------------------------------------- call_claude, the caller

EnvVars == <<child, exitCode, desc, outSent, errSent, outPipe, errPipe, scenario, now>>

\* proc = subprocess.Popen(..., env=get_claude_env())
Popen ==
    /\ pc = "popen"
    /\ env' = GetClaudeEnv(environ).env
    /\ environ' = GetClaudeEnv(environ).environ
    /\ child' = "running"
    /\ pc' = "start_out"
    /\ UNCHANGED <<exitCode, desc, outSent, errSent, outPipe, errPipe, scenario, now>>
    /\ UNCHANGED ReaderVars
    /\ UNCHANGED LocalVars
    /\ UNCHANGED <<meals, valid, warned>>
    /\ UNCHANGED MainVars

\* t_out.start()
StartOut ==
    /\ pc = "start_out"
    /\ rdOut' = "reading"
    /\ pc' = "start_err"
    /\ UNCHANGED <<rdErr, outBuf, stdout_chunks, stderr_lines, logged, errStep, line>>
    /\ UNCHANGED EnvVars
    /\ UNCHANGED LocalVars
    /\ UNCHANGED OuterVars

\* t_err.start()
StartErr ==
    /\ pc = "start_err"
    /\ rdErr' = "reading"
    /\ pc' = "wait"
    /\ UNCHANGED <<rdOut, outBuf, stdout_chunks, stderr_lines, logged, errStep, line>>
    /\ UNCHANGED EnvVars
    /\ UNCHANGED LocalVars
    /\ UNCHANGED OuterVars

\* proc.wait(timeout=...) returns: the child has exited and is reaped
WaitReturn ==
    /\ pc = "wait"
    /\ child = "exited"
    /\ child' = "reaped"
    /\ returncode' = exitCode
    /\ pc' = "join_out"
    /\ UNCHANGED <<exitCode, desc, outSent, errSent, outPipe, errPipe, scenario, now>>
    /\ UNCHANGED <<stdout_text, response, structured, diag, outcome, timedOut, joinStart>>
    /\ UNCHANGED ReaderVars
    /\ UNCHANGED OuterVars

\* proc.wait(timeout=...) raises TimeoutExpired: the child is still running at the deadline
WaitTimeout ==
    /\ pc = "wait"
    /\ child = "running"
    /\ WaitExpired(now)
    /\ timedOut' = TRUE
    /\ pc' = "kill"
    /\ UNCHANGED <<stdout_text, response, structured, diag, outcome, joinStart, returncode>>
    /\ UNCHANGED EnvVars
    /\ UNCHANGED ReaderVars
    /\ UNCHANGED OuterVars

\* proc.kill(): SIGKILL to a running child, which dies without being waited on;
\* a child found dead by the poll that precedes the signal is reaped instead
Kill ==
    /\ pc = "kill"
    /\ IF child = "running"
       THEN child' = "killed" /\ exitCode' = <<-9>> /\ UNCHANGED returncode
       ELSE child' = "reaped" /\ returncode' = exitCode /\ UNCHANGED exitCode
    /\ joinStart' = now
    /\ pc' = "tjoin_out"
    /\ UNCHANGED <<desc, outSent, errSent, outPipe, errPipe, scenario, now>>
    /\ UNCHANGED <<stdout_text, response, structured, diag, outcome, timedOut>>
    /\ UNCHANGED ReaderVars
    /\ UNCHANGED OuterVars

\* t_out.join(timeout=5) returns: t_out has ended, or 5 seconds have passed
TimedJoinOut ==
    /\ pc = "tjoin_out"
    /\ rdOut = "done" \/ JoinExpired(joinStart, now)
    /\ joinStart' = now
    /\ pc' = "tjoin_err"
    /\ UNCHANGED <<stdout_text, response, structured, diag, outcome, timedOut, returncode>>
    /\ UNCHANGED EnvVars
    /\ UNCHANGED ReaderVars
    /\ UNCHANGED OuterVars

\* t_err.join(timeout=5) returns: t_err has ended, or 5 seconds have passed
TimedJoinErr ==
    /\ pc = "tjoin_err"
    /\ rdErr = "done" \/ JoinExpired(joinStart, now)
    /\ pc' = "log_out"
    /\ UNCHANGED LocalVars
    /\ UNCHANGED EnvVars
    /\ UNCHANGED ReaderVars
    /\ UNCHANGED OuterVars

\* log.error(f"... stdout before timeout: {(''.join(stdout_chunks))[:500]!r}")
LogStdout ==
    /\ pc = "log_out"
    /\ diag' = [diag EXCEPT !.out = Head_n(Concat(stdout_chunks), DIAG_LIMIT)]
    /\ pc' = "log_err"
    /\ UNCHANGED <<stdout_text, response, structured, outcome, timedOut, joinStart, returncode>>
    /\ UNCHANGED EnvVars
    /\ UNCHANGED ReaderVars
    /\ UNCHANGED OuterVars

\* log.error(f"... stderr before timeout: {' | '.join(stderr_lines)[:500]!r}"); raise
LogStderrAndRaise ==
    /\ pc = "log_err"
    /\ diag' = [diag EXCEPT !.err = Head_n(JoinWith(<<SP, "|", SP>>, stderr_lines), DIAG_LIMIT)]
    /\ outcome' = TimeoutExpired
    /\ pc' = "done"
    /\ UNCHANGED <<stdout_text, response, structured, timedOut, joinStart, returncode>>
    /\ UNCHANGED EnvVars
    /\ UNCHANGED ReaderVars
    /\ UNCHANGED OuterVars

\* t_out.join()
JoinOut ==
    /\ pc = "join_out"
    /\ rdOut = "done"
    /\ pc' = "join_err"
    /\ UNCHANGED LocalVars
    /\ UNCHANGED EnvVars
    /\ UNCHANGED ReaderVars
    /\ UNCHANGED OuterVars

\* t_err.join()
JoinErr ==
    /\ pc = "join_err"
    /\ rdErr = "done"
    /\ pc' = "join_text"
    /\ UNCHANGED LocalVars
    /\ UNCHANGED EnvVars
    /\ UNCHANGED ReaderVars
    /\ UNCHANGED OuterVars

\* stdout_text = "".join(stdout_chunks)
JoinText ==
    /\ pc = "join_text"
    /\ stdout_text' = Concat(stdout_chunks)
    /\ pc' = "check_rc"
    /\ UNCHANGED <<response, structured, diag, outcome, timedOut, joinStart, returncode>>
    /\ UNCHANGED EnvVars
    /\ UNCHANGED ReaderVars
    /\ UNCHANGED OuterVars

\* the last 500 characters instead of the first
StderrExcerpt_Tail(lines) == Tail_n(JoinWith(<<SP>>, lines), DIAG_LIMIT)

\* ' '.join(stderr_lines)[:500]
StderrExcerpt(lines) == Head_n(JoinWith(<<SP>>, lines), DIAG_LIMIT)

\* a call that goes on to stdout whatever the exit status was
CheckReturncode_Skip ==
    /\ pc = "check_rc"
    /\ pc' = "parse"
    /\ UNCHANGED <<stdout_text, response, structured, diag, outcome, timedOut, joinStart, returncode>>
    /\ UNCHANGED EnvVars
    /\ UNCHANGED ReaderVars
    /\ UNCHANGED OuterVars

\* if proc.returncode != 0: raise RuntimeError(...)
CheckReturncode ==
    /\ pc = "check_rc"
    /\ IF returncode # <<0>>
       THEN outcome' = NonZeroExit(returncode, StderrExcerpt(stderr_lines)) /\ pc' = "done"
       ELSE pc' = "parse" /\ UNCHANGED outcome
    /\ UNCHANGED <<stdout_text, response, structured, diag, timedOut, joinStart, returncode>>
    /\ UNCHANGED EnvVars
    /\ UNCHANGED ReaderVars
    /\ UNCHANGED OuterVars

\* a parse failure taken for an empty response instead of being raised
ParseStdout_Lenient ==
    /\ pc = "parse"
    /\ response' = IF JsonLoads(stdout_text).ok THEN JsonLoads(stdout_text).val ELSE JObj(<<>>, <<>>)
    /\ pc' = "lookup"
    /\ UNCHANGED <<stdout_text, structured, diag, outcome, timedOut, joinStart, returncode>>
    /\ UNCHANGED EnvVars
    /\ UNCHANGED ReaderVars
    /\ UNCHANGED OuterVars

\* response = json.loads(stdout_text)
ParseStdout ==
    /\ pc = "parse"
    /\ IF JsonLoads(stdout_text).ok
       THEN response' = JsonLoads(stdout_text).val /\ pc' = "lookup" /\ UNCHANGED outcome
       ELSE outcome' = JSONDecodeError /\ pc' = "done" /\ UNCHANGED response
    /\ UNCHANGED <<stdout_text, structured, diag, timedOut, joinStart, returncode>>
    /\ UNCHANGED EnvVars
    /\ UNCHANGED ReaderVars
    /\ UNCHANGED OuterVars

\* a fallback that only knows the string form of "result"
FromResult_StringOnly(raw_result) ==
    IF raw_result.t = "str" /\ Strip(raw_result.s) # <<>>
    THEN (IF JsonLoads(raw_result.s).ok THEN JsonLoads(raw_result.s).val ELSE PyNone)
    ELSE PyNone

\* what the fallback makes of raw_result: the dict itself, the nested parse of a
\* non-blank string, None if that parse fails or raw_result is anything else
FromResult(raw_result) ==
    IF raw_result.t = "obj" THEN raw_result
    ELSE IF raw_result.t = "str" /\ Strip(raw_result.s) # <<>>
         THEN (IF JsonLoads(raw_result.s).ok THEN JsonLoads(raw_result.s).val ELSE PyNone)
    ELSE PyNone

\* the fallback consulted first, the primary key only if it gives nothing
FindStructured_ResultFirst(resp) ==
    IF FromResult(DictGet(resp, KEY_SECONDARY, JStr(<<>>))) # PyNone
    THEN FromResult(DictGet(resp, KEY_SECONDARY, JStr(<<>>)))
    ELSE DictGet(resp, KEY_PRIMARY, PyNone)

\* structured = response.get("structured_output"), else the fallback on response.get("result", "")
FindStructured(resp) ==
    IF DictGet(resp, KEY_PRIMARY, PyNone) # PyNone
    THEN DictGet(resp, KEY_PRIMARY, PyNone)
    ELSE FromResult(DictGet(resp, KEY_SECONDARY, JStr(<<>>)))

\* the lookup of the payload; a document that is no dict has no .get
Lookup ==
    /\ pc = "lookup"
    /\ IF response.t = "obj"
       THEN structured' = FindStructured(response) /\ pc' = "decide" /\ UNCHANGED outcome
       ELSE outcome' = AttributeError /\ pc' = "done" /\ UNCHANGED structured
    /\ UNCHANGED <<stdout_text, response, diag, timedOut, joinStart, returncode>>
    /\ UNCHANGED EnvVars
    /\ UNCHANGED ReaderVars
    /\ UNCHANGED OuterVars

\* a conclusion that forgets the None check
Conclude_NoCheck(resp, found) == Returned(found)

\* if structured is None: raise RuntimeError(... Keys: list(response.keys())); return structured
Conclude(resp, found) ==
    IF found = PyNone THEN MissingPayload(resp.keys) ELSE Returned(found)

Decide ==
    /\ pc = "decide"
    /\ outcome' = Conclude(response, structured)
    /\ pc' = "done"
    /\ UNCHANGED <<stdout_text, response, structured, diag, timedOut, joinStart, returncode>>
    /\ UNCHANGED EnvVars
    /\ UNCHANGED ReaderVars
    /\ UNCHANGED OuterVars

\* at time t the caller is inside a blocking call that cannot return yet
BlockedAt(t) ==
    \/ pc = "wait" /\ child = "running" /\ ~WaitExpired(t)
    \/ pc = "tjoin_out" /\ rdOut # "done" /\ ~JoinExpired(joinStart, t)
    \/ pc = "tjoin_err" /\ rdErr # "done" /\ ~JoinExpired(joinStart, t)
    \/ pc = "join_out" /\ rdOut # "done"
    \/ pc = "join_err" /\ rdErr # "done"

Instants == TimePoints \cup {joinStart + JOIN_TIMEOUT}

\* a reader thread has something to do: data or end-of-stream on its own pipe
ReaderReady ==
    \/ CanReadStdout
    \/ CanStreamStderr
    \/ rdOut = "reading" /\ AtEof(outPipe)
    \/ rdErr = "reading" /\ AtEof(errPipe)
    \/ rdErr = "reading" /\ errStep # "readline"

\* time passes while every thread of the program is blocked, up to the next
\* sampled instant and not past an instant at which the caller's call gives up
Tick ==
    /\ BlockedAt(now)
    /\ ~ReaderReady
    /\ \E t \in Instants :
          /\ t > now
          /\ \A u \in Instants : (u > now /\ u < t) => BlockedAt(u)
          /\ now' = t
    /\ UNCHANGED <<pc, child, exitCode, desc, outSent, errSent, outPipe, errPipe, scenario>>
    /\ UNCHANGED ReaderVars
    /\ UNCHANGED LocalVars
    /\ UNCHANGED OuterVars

Next ==
    \/ Popen \/ StartOut \/ StartErr \/ WaitReturn \/ WaitTimeout \/ Kill
    \/ TimedJoinOut \/ TimedJoinErr \/ LogStdout \/ LogStderrAndRaise
    \/ JoinOut \/ JoinErr \/ JoinText \/ CheckReturncode \/ ParseStdout
    \/ Lookup \/ Decide
    \/ ChildWriteOut \/ ChildWriteErr \/ ChildSpawn \/ DescExit \/ ChildExit
    \/ ReadStdoutData \/ ReadStdoutEof
    \/ StreamStderrLine \/ StreamStderrLog \/ StreamStderrAppend \/ StreamStderrEof
    \/ Tick

Spec == Init /\ [][Next]_vars

\* ---------------------------------------------------------- validate_meals

KEY_RECIPE_NAME == <<"r", "e", "c", "i", "p", "e", "_", "n", "a", "m", "e">>
KEY_SOURCE == <<"s", "o", "u", "r", "c", "e">>
KEY_URL == <<"u", "r", "l">>
SRC_NOTION == <<"n", "o", "t", "i", "o", "n">>
SRC_WEB == <<"w", "e", "b">>

\* ("recipe_name", "source", "url")
RequiredFields == <<KEY_RECIPE_NAME, KEY_SOURCE, KEY_URL>>

\* what `for m in v` yields: the elements of a list, the keys of a dict, the
\* characters of a string
IterItems(v) ==
    IF v.t = "arr" THEN v.items
    ELSE IF v.t = "obj" THEN [i \in 1..Len(v.keys) |-> JStr(v.keys[i])]
    ELSE [i \in 1..Len(v.s) |-> JStr(<<v.s[i]>>)]

\* any(k in meal for k in (...)) in the place of all(...)
HasRequired_Any(meal) ==
    \E i \in 1..Len(RequiredFields) : KeyIndex(meal.keys, RequiredFields[i]) # 0

\* all(k in meal for k in ("recipe_name", "source", "url"))
HasRequired(meal) ==
    \A i \in 1..Len(RequiredFields) : KeyIndex(meal.keys, RequiredFields[i]) # 0

RECURSIVE KeepValid(_)
\* the list `valid` the loop over meals builds
KeepValid(ms) ==
    IF ms = <<>> THEN <<>>
    ELSE (IF HasRequired(Head(ms)) THEN <<Head(ms)>> ELSE <<>>) \o KeepValid(Tail(ms))

RECURSIVE SkipWarnings(_)
\* log.warning(f"Skipping meal with missing fields: {meal}"), one per meal dropped
SkipWarnings(ms) ==
    IF ms = <<>> THEN <<>>
    ELSE (IF HasRequired(Head(ms)) THEN <<>> ELSE <<[kind |-> "skipping", meal |-> Head(ms)]>>)
         \o SkipWarnings(Tail(ms))

\* len([m for m in meals if m.get("source") == source])
CountSource(ms, source) ==
    Cardinality({i \in 1..Len(ms) : DictGet(ms[i], KEY_SOURCE, PyNone) = JStr(source)})

\* log.warning(f"Expected {expected} ... meals, got {got}") if they differ
CountWarning(what, expected, got) ==
    IF got # expected THEN <<[kind |-> what, expected |-> expected, got |-> got]>> ELSE <<>>

\* the three count checks, in their order
CountWarnings(ms) ==
    CountWarning("total", NUM_MEALS, Len(ms))
    \o CountWarning("notion", NUM_NOTION_MEALS, CountSource(ms, SRC_NOTION))
    \o CountWarning("web", NUM_WEB_MEALS, CountSource(ms, SRC_WEB))

\* a validator that cuts the list by one when the total is not the expected one
ValidateMeals_TrimOnMismatch(v) ==
    IF v.t \notin {"arr", "obj", "str"}
    THEN [outcome |-> TypeError, warned |-> <<>>]
    ELSE IF \E i \in 1..Len(IterItems(v)) : IterItems(v)[i].t # "obj"
    THEN [outcome |-> AttributeError, warned |-> <<>>]
    ELSE [outcome |-> Returned(JArr(IF Len(KeepValid(IterItems(v))) = NUM_MEALS
                                    THEN KeepValid(IterItems(v))
                                    ELSE Head_n(KeepValid(IterItems(v)),
                                                Len(KeepValid(IterItems(v))) - 1))),
          warned |-> CountWarnings(IterItems(v)) \o SkipWarnings(IterItems(v))]

\* validate_meals(meals): how it ends and what it logs.  A value that cannot be
\* iterated raises TypeError; an element that is no dict has no .get and raises
\* AttributeError in the first comprehension, before anything is logged
ValidateMeals(v) ==
    IF v.t \notin {"arr", "obj", "str"}
    THEN [outcome |-> TypeError, warned |-> <<>>]
    ELSE IF \E i \in 1..Len(IterItems(v)) : IterItems(v)[i].t # "obj"
    THEN [outcome |-> AttributeError, warned |-> <<>>]
    ELSE [outcome |-> Returned(JArr(KeepValid(IterItems(v)))),
          warned |-> CountWarnings(IterItems(v)) \o SkipWarnings(IterItems(v))]

\* ------------------------------------------- get_claude_env on its own

\* the variables of call_claude besides the caller's position
CallVars == <<child, exitCode, returncode, desc, scenario, outSent, errSent,
              outPipe, errPipe, rdOut, rdErr, outBuf, stdout_chunks, stderr_lines,
              logged, errStep, line, now, joinStart, timedOut, stdout_text, response,
              structured, diag, outcome>>

DefaultScenario == [out |-> DefaultOut, err |-> DefaultErr]

\* the largest number of entries of an inherited PATH
MaxPathEntries == 3

DIR_CUSTOM == <<"/", "x">>
MARKER_ON == <<"1">>
LANG_C == <<"C">>

\* the entries an inherited PATH is made of: required ones, another one, an empty one
PathEntries == {DIR_BIN, DIR_USR_BIN, SET_HOME \o LOCAL_BIN, DIR_CUSTOM, <<>>}

PathTexts ==
    { JoinWith(<<COLON>>, l) : l \in UNION {[1..n -> PathEntries] : n \in 0..MaxPathEntries} }

\* one variable of an environment, or none
Setting(k, v) == <<[k |-> k, v |-> v]>>
Unset == <<>>

MakeEnviron(settings) ==
    JObj([i \in 1..Len(settings) |-> settings[i].k], [i \in 1..Len(settings) |-> settings[i].v])

\* the environments the process may inherit
Environs ==
    { MakeEnviron(h \o m \o p \o Setting(ENV_LANG, LANG_C)) :
        h \in {Unset, Setting(ENV_HOME, SET_HOME)},
        m \in {Unset, Setting(ENV_CLAUDECODE, MARKER_ON)},
        p \in {Unset} \cup {Setting(ENV_PATH, t) : t \in PathTexts} }

EnvInit ==
    /\ pc = "get_claude_env"
    /\ scenario = DefaultScenario
    /\ CallInit
    /\ environ \in Environs
    /\ env = NoEnv
    /\ ValidateInit
    /\ MainInit

\* env = get_claude_env()
CallGetClaudeEnv ==
    /\ pc = "get_claude_env"
    /\ env' = GetClaudeEnv(environ).env
    /\ environ' = GetClaudeEnv(environ).environ
    /\ pc' = "got_env"
    /\ UNCHANGED CallVars
    /\ UNCHANGED <<meals, valid, warned>>
    /\ UNCHANGED MainVars

EnvNext == CallGetClaudeEnv

EnvSpec == EnvInit /\ [][EnvNext]_vars

\* ------------------------------------------- validate_meals on its own

\* the longest list of meals handed to validate_meals
MaxMeals == 5

TXT_A == <<"a">>
TXT_B == <<"b">>
TXT_U == <<"u">>

Meal(name, source, url) ==
    JObj(<<KEY_RECIPE_NAME, KEY_SOURCE, KEY_URL>>, <<JStr(name), JStr(source), url>>)

M_NOTION == Meal(TXT_A, SRC_NOTION, JStr(TXT_U))
M_WEB == Meal(TXT_B, SRC_WEB, JStr(TXT_U))
\* a source that is neither notion nor web
M_OTHER == Meal(TXT_B, TXT_A, JStr(TXT_U))
\* the url present, but null
M_NULLURL == Meal(TXT_A, SRC_WEB, JNull)
\* no url, the fields in another order
M_NOURL == JObj(<<KEY_SOURCE, KEY_RECIPE_NAME>>, <<JStr(SRC_NOTION), JStr(TXT_A)>>)

\* records
MealRecords == {M_NOTION, M_WEB, M_OTHER, M_NULLURL, M_NOURL}
\* elements that are no records
NonRecords == {JNull, JNum(7)}

MealLists ==
    UNION { [1..n -> MealRecords \cup NonRecords] : n \in 0..MaxMeals }

ValidateSpecInit ==
    /\ pc = "validate_meals"
    /\ scenario = DefaultScenario
    /\ CallInit
    /\ environ = DefaultEnviron
    /\ env = NoEnv
    /\ meals \in {JArr(l) : l \in MealLists}
    /\ valid = NoOutcome
    /\ warned = <<>>
    /\ MainInit

\* validate_meals(meals)
CallValidateMeals ==
    /\ pc = "validate_meals"
    /\ valid' = ValidateMeals(meals).outcome
    /\ warned' = warned \o ValidateMeals(meals).warned
    /\ pc' = "validated"
    /\ UNCHANGED <<meals, environ, env>>
    /\ UNCHANGED CallVars
    /\ UNCHANGED MainVars

\* validate_meals(valid): the list returned is validated once more
CallValidateMealsAgain ==
    /\ pc = "validated"
    /\ valid.kind = "returned"
    /\ meals' = valid.val
    /\ valid' = ValidateMeals(valid.val).outcome
    /\ warned' = warned \o ValidateMeals(valid.val).warned
    /\ pc' = "revalidated"
    /\ UNCHANGED <<environ, env>>
    /\ UNCHANGED CallVars
    /\ UNCHANGED MainVars

ValidateNext == CallValidateMeals \/ CallValidateMealsAgain

ValidateSpec == ValidateSpecInit /\ [][ValidateNext]_vars

\* ------------------------------------------------------- meal_planner.main

\* datetime.now().strftime("%Y-%m-%d") of the run, and the date of an earlier run
TODAY == <<"2", "0", "2", "6", "-", "0", "1", "-", "1", "2">>
EARLIER == <<"2", "0", "2", "6", "-", "0", "1", "-", "0", "5">>

PY_TRUE == <<"T", "r", "u", "e">>
PY_FALSE == <<"F", "a", "l", "s", "e">>

\* what csv.writer writes for a value: a string as it is, None as the empty
\* field, anything else through str()
CsvField(v) ==
    IF v.t = "str" THEN v.s
    ELSE IF v.t = "null" THEN <<>>
    ELSE IF v.t = "bool" THEN (IF v.b THEN PY_TRUE ELSE PY_FALSE)
    ELSE Encode(v, <<SP>>)

\* {"date": date, "source": meal["source"], "recipe_name": meal["recipe_name"],
\*  "url": meal.get("url", "")}
Row(meal, day) ==
    [date |-> day,
     source |-> CsvField(DictGet(meal, KEY_SOURCE, PyNone)),
     recipe_name |-> CsvField(DictGet(meal, KEY_RECIPE_NAME, PyNone)),
     url |-> CsvField(DictGet(meal, KEY_URL, JStr(<<>>)))]

\* the rows append_meal_plan writes for the meals
Rows(ms, day) == [i \in 1..Len(ms) |-> Row(ms[i], day)]

\* OSError out of a file operation
OSErrorRaised == [NoOutcome EXCEPT !.kind = "os_error"]
\* RuntimeError("No network connectivity to api.anthropic.com: ...")
NoNetwork == [NoOutcome EXCEPT !.kind = "no_network"]
\* RuntimeError("No valid meals returned from Claude")
NoValidMeals == [NoOutcome EXCEPT !.kind = "no_valid_meals"]
\* an exception out of send_meal_plan_email
SendError == [NoOutcome EXCEPT !.kind = "send_error"]

\* how a call into email_sender ends: TRUE if it returns, FALSE if it raises
SendOutcomes == {TRUE, FALSE}

CallAndReaders == <<child, exitCode, returncode, desc, scenario, outSent, errSent,
                    outPipe, errPipe, rdOut, rdErr, outBuf, stdout_chunks, stderr_lines,
                    logged, errStep, line, now, joinStart, timedOut, stdout_text, response,
                    structured, diag, outcome, environ, env>>

\* the state of meal_regenerator.main and of the mailbox it reads
RegenVars == <<program, csv_at_entry, inbox, replies, date>>

\* excluded = read_recent_recipes(): returns, or a file error leaves the try block
ReadRecentRecipes ==
    /\ pc = "read_history"
    /\ \E ok \in BOOLEAN :
          IF ok THEN pc' = "ingredients" /\ UNCHANGED caught
          ELSE caught' = OSErrorRaised /\ pc' = "except"
    /\ UNCHANGED <<meals, valid, warned, csv, mail, exit_status>>
    /\ UNCHANGED CallAndReaders
    /\ UNCHANGED RegenVars

\* ingredient_hints = fetch_ingredient_requests(), any exception of it swallowed
FetchIngredientRequests ==
    /\ pc = "ingredients"
    /\ pc' = "prompt"
    /\ UNCHANGED <<meals, valid, warned, csv, mail, caught, exit_status>>
    /\ UNCHANGED CallAndReaders
    /\ UNCHANGED RegenVars

\* prompt = build_prompt(excluded, ingredient_hints)
BuildPrompt ==
    /\ pc = "prompt"
    /\ pc' = "network"
    /\ UNCHANGED <<meals, valid, warned, csv, mail, caught, exit_status>>
    /\ UNCHANGED CallAndReaders
    /\ UNCHANGED RegenVars

\* socket.getaddrinfo("api.anthropic.com", 443); OSError becomes RuntimeError
NetworkCheck ==
    /\ pc = "network"
    /\ \E ok \in BOOLEAN :
          IF ok THEN pc' = "call_claude" /\ UNCHANGED caught
          ELSE caught' = NoNetwork /\ pc' = "except"
    /\ UNCHANGED <<meals, valid, warned, csv, mail, exit_status>>
    /\ UNCHANGED CallAndReaders
    /\ UNCHANGED RegenVars

\* structured = call_claude(prompt): the call is entered
CallClaude ==
    /\ pc = "call_claude"
    /\ pc' = "popen"
    /\ UNCHANGED <<meals, valid, warned, csv, mail, caught, exit_status>>
    /\ UNCHANGED CallAndReaders
    /\ UNCHANGED RegenVars

\* call_claude has returned or raised; meals = structured.get("meals", []);
\* len(meals) for the log line
GetMeals ==
    /\ program = "meal_planner"
    /\ pc = "done"
    /\ IF outcome.kind # "returned"
       THEN caught' = outcome /\ pc' = "except" /\ UNCHANGED meals
       ELSE IF outcome.val.t # "obj"
       THEN caught' = AttributeError /\ pc' = "except" /\ UNCHANGED meals
       ELSE IF DictGet(outcome.val, KEY_MEALS, JArr(<<>>)).t \in {"null", "num", "bool"}
       THEN caught' = TypeError /\ pc' = "except" /\ UNCHANGED meals
       ELSE meals' = DictGet(outcome.val, KEY_MEALS, JArr(<<>>)) /\ pc' = "validate"
            /\ UNCHANGED caught
    /\ UNCHANGED <<valid, warned, csv, mail, exit_status>>
    /\ UNCHANGED CallAndReaders
    /\ UNCHANGED RegenVars

\* meals = validate_meals(meals)
Validate ==
    /\ pc = "validate"
    /\ valid' = ValidateMeals(meals).outcome
    /\ warned' = warned \o ValidateMeals(meals).warned
    /\ IF ValidateMeals(meals).outcome.kind = "returned"
       THEN pc' = "check" /\ UNCHANGED caught
       ELSE caught' = ValidateMeals(meals).outcome /\ pc' = "except"
    /\ UNCHANGED <<meals, csv, mail, exit_status>>
    /\ UNCHANGED CallAndReaders
    /\ UNCHANGED RegenVars

\* a main that goes on with an empty list
CheckMeals_NoRaise ==
    /\ pc = "check"
    /\ pc' = "append"
    /\ UNCHANGED <<meals, valid, warned, csv, mail, caught, exit_status>>
    /\ UNCHANGED CallAndReaders
    /\ UNCHANGED RegenVars

\* if not meals: raise RuntimeError("No valid meals returned from Claude")
CheckMeals ==
    /\ pc = "check"
    /\ IF valid.val.items = <<>>
       THEN caught' = NoValidMeals /\ pc' = "except"
       ELSE pc' = "append" /\ UNCHANGED caught
    /\ UNCHANGED <<meals, valid, warned, csv, mail, exit_status>>
    /\ UNCHANGED CallAndReaders
    /\ UNCHANGED RegenVars

\* append_meal_plan(meals, today): all the rows are written, or a file error
\* leaves the try block after the first k of them
AppendMealPlan ==
    /\ pc = "append"
    /\ \E k \in 0..Len(valid.val.items) :
          /\ csv' = IF k = 0 /\ Len(valid.val.items) # 0
                    THEN csv
                    ELSE [exists |-> TRUE,
                          rows |-> csv.rows \o SubSeq(Rows(valid.val.items, TODAY), 1, k)]
          /\ IF k = Len(valid.val.items)
             THEN pc' = "send" /\ UNCHANGED caught
             ELSE caught' = OSErrorRaised /\ pc' = "except"
    /\ UNCHANGED <<meals, valid, warned, mail, exit_status>>
    /\ UNCHANGED CallAndReaders
    /\ UNCHANGED RegenVars

\* send_meal_plan_email(meals, today)
SendMealPlanEmail ==
    /\ pc = "send"
    /\ \E ok \in SendOutcomes :
          /\ mail' = Append(mail, [kind |-> "plan", ok |-> ok])
          /\ IF ok THEN pc' = "finish" /\ UNCHANGED caught
             ELSE caught' = SendError /\ pc' = "except"
    /\ UNCHANGED <<meals, valid, warned, csv, exit_status>>
    /\ UNCHANGED CallAndReaders
    /\ UNCHANGED RegenVars

\* main returns: the process ends with status 0
Finish ==
    /\ pc = "finish"
    /\ exit_status' = <<0>>
    /\ pc' = "exited"
    /\ UNCHANGED <<meals, valid, warned, csv, mail, caught>>
    /\ UNCHANGED CallAndReaders
    /\ UNCHANGED RegenVars

\* except subprocess.TimeoutExpired / except Exception: _try_failure_email(error),
\* which swallows what send_failure_email raises
TryFailureEmail ==
    /\ pc = "except"
    /\ \E ok \in SendOutcomes :
          mail' = Append(mail, [kind |-> "failure", ok |-> ok])
    /\ pc' = "exit"
    /\ UNCHANGED <<meals, valid, warned, csv, caught, exit_status>>
    /\ UNCHANGED CallAndReaders
    /\ UNCHANGED RegenVars

\* sys.exit(1)
SysExit ==
    /\ pc = "exit"
    /\ exit_status' = <<1>>
    /\ pc' = "exited"
    /\ UNCHANGED <<meals, valid, warned, csv, mail, caught>>
    /\ UNCHANGED CallAndReaders
    /\ UNCHANGED RegenVars

\* the payloads and texts the CLI answers main with
P_GOOD == Obj1(KEY_MEALS, JArr(<<M_NOTION, M_NOURL>>))
P_WEB == Obj1(KEY_MEALS, JArr(<<M_NULLURL>>))
P_DROPPED == Obj1(KEY_MEALS, JArr(<<M_NOURL>>))

MainStdoutTexts ==
    { Encode(Obj1(KEY_PRIMARY, P_GOOD), <<>>),
      Encode(Obj1(KEY_SECONDARY, Txt(P_WEB)), <<>>),
      Encode(Obj1(KEY_PRIMARY, P_DROPPED), <<>>),
      Encode(Obj1(KEY_PRIMARY, P_EMPTY), <<>>),
      Encode(Obj1(KEY_PRIMARY, P_ONE), <<>>),
      Encode(Obj1(KEY_PRIMARY, EmptyObj), <<>>),
      Encode(Obj1(KEY_PRIMARY, Obj1(KEY_MEALS, JNull)), <<>>),
      Encode(Obj1(KEY_PRIMARY, JArr(<<JNum(1)>>)), <<>>),
      Encode(Obj1(KEY_TYPE, JStr(TXT_OK)), <<>>),
      <<"n", "o", "t", " ", "j", "s", "o", "n">> }

\* the history file main may find: none, or the row of an earlier run
CsvFiles == {NoFile, [exists |-> TRUE, rows |-> <<Row(M_WEB, EARLIER)>>]}

MainSpecInit ==
    /\ pc = "read_history"
    /\ scenario \in {[out |-> o, err |-> DefaultErr] : o \in MainStdoutTexts}
    /\ CallInit
    /\ environ = DefaultEnviron
    /\ env = NoEnv
    /\ ValidateInit
    /\ csv \in CsvFiles
    /\ mail = <<>>
    /\ caught = NoOutcome
    /\ exit_status = NoCode
    /\ program = "meal_planner"
    /\ csv_at_entry = csv
    /\ inbox = <<>>
    /\ replies = <<>>
    /\ date = NoDate

MainNext ==
    \/ ReadRecentRecipes \/ FetchIngredientRequests \/ BuildPrompt \/ NetworkCheck
    \/ CallClaude \/ GetMeals \/ Validate \/ CheckMeals \/ AppendMealPlan
    \/ SendMealPlanEmail \/ Finish \/ TryFailureEmail \/ SysExit
    \/ Next

MainSpec == MainSpecInit /\ [][MainNext]_vars

\* ------------------------------------------------- csv_history on its own

RECURSIVE DatedRows(_, _)
\* the rows of the history file that carry the date
DatedRows(rows, day) ==
    IF rows = <<>> THEN <<>>
    ELSE (IF Head(rows).date = day THEN <<Head(rows)>> ELSE <<>>) \o DatedRows(Tail(rows), day)

RECURSIVE OtherRows(_, _)
\* rows = [row for row in reader if row.get("date") != date]
OtherRows(rows, day) ==
    IF rows = <<>> THEN <<>>
    ELSE (IF Head(rows).date # day THEN <<Head(rows)>> ELSE <<>>) \o OtherRows(Tail(rows), day)

\* get_latest_meal_plan(date): the rows of the date as dicts, [] without a file
GetLatestMealPlan(file, day) ==
    IF ~file.exists THEN <<>> ELSE DatedRows(file.rows, day)

\* an overwrite that keeps the rows the file had for the date
OverwriteMealPlan_KeepAll(file, ms, day) ==
    IF ~file.exists THEN file
    ELSE [exists |-> TRUE, rows |-> file.rows \o Rows(ms, day)]

\* overwrite_meal_plan(meals, date): nothing without a file; otherwise the header,
\* the rows of the other dates, then one row of the date for each meal
OverwriteMealPlan(file, ms, day) ==
    IF ~file.exists THEN file
    ELSE [exists |-> TRUE, rows |-> OtherRows(file.rows, day) \o Rows(ms, day)]

\* the longest list of new meals
MaxNewMeals == 2

\* the lists validate_meals can return: every record carries the required fields
NewMealLists ==
    UNION { [1..n -> {M_NOTION, M_WEB, M_NULLURL, M_NOURL}] : n \in 0..MaxNewMeals }

\* the history files the two programs can have left: none, the header alone,
\* the rows of one run, of two runs, and of runs whose rows alternate
HistoryFiles ==
    { NoFile,
      [exists |-> TRUE, rows |-> <<>>],
      [exists |-> TRUE, rows |-> <<Row(M_WEB, EARLIER)>>],
      [exists |-> TRUE, rows |-> <<Row(M_WEB, TODAY), Row(M_NOTION, TODAY)>>],
      [exists |-> TRUE, rows |-> <<Row(M_WEB, EARLIER), Row(M_NOTION, TODAY), Row(M_WEB, TODAY)>>],
      [exists |-> TRUE, rows |-> <<Row(M_NOTION, TODAY), Row(M_NOTION, EARLIER),
                                   Row(M_WEB, TODAY), Row(M_WEB, EARLIER)>>] }

OverwriteInit ==
    /\ pc = "overwrite_meal_plan"
    /\ scenario = DefaultScenario
    /\ CallInit
    /\ environ = DefaultEnviron
    /\ env = NoEnv
    /\ meals \in {JArr(l) : l \in NewMealLists}
    /\ valid = NoOutcome
    /\ warned = <<>>
    /\ csv \in HistoryFiles
    /\ mail = <<>>
    /\ caught = NoOutcome
    /\ exit_status = NoCode
    /\ program = "none"
    /\ csv_at_entry = csv
    /\ inbox = <<>>
    /\ replies = <<>>
    /\ date \in {TODAY, EARLIER}

OverwriteFrame ==
    /\ UNCHANGED CallVars
    /\ UNCHANGED <<environ, env, meals, valid, warned>>
    /\ UNCHANGED <<mail, caught, exit_status, program, csv_at_entry, inbox, replies, date>>

\* overwrite_meal_plan(meals, date)
CallOverwriteMealPlan ==
    /\ pc = "overwrite_meal_plan"
    /\ csv' = OverwriteMealPlan(csv, meals.items, date)
    /\ pc' = "overwritten"
    /\ OverwriteFrame

\* overwrite_meal_plan(meals, date), a second time
CallOverwriteMealPlanAgain ==
    /\ pc = "overwritten"
    /\ csv' = OverwriteMealPlan(csv, meals.items, date)
    /\ pc' = "overwritten_twice"
    /\ OverwriteFrame

OverwriteNext == CallOverwriteMealPlan \/ CallOverwriteMealPlanAgain

OverwriteSpec == OverwriteInit /\ [][OverwriteNext]_vars

\* ----------------------------------------------------------- email_reader

NL == "\n"
DASH == "-"
GT == ">"

UpperChars == <<"A", "B", "C", "D", "E", "F", "G", "H", "I", "J", "K", "L", "M",
                "N", "O", "P", "Q", "R", "S", "T", "U", "V", "W", "X", "Y", "Z">>
LowerChars == <<"a", "b", "c", "d", "e", "f", "g", "h", "i", "j", "k", "l", "m",
                "n", "o", "p", "q", "r", "s", "t", "u", "v", "w", "x", "y", "z">>

\* str.lower()
Lower(s) ==
    [i \in 1..Len(s) |->
        IF \E n \in 1..26 : UpperChars[n] = s[i]
        THEN LowerChars[CHOOSE n \in 1..26 : UpperChars[n] = s[i]]
        ELSE s[i]]

StartsWith(s, prefix) == Len(s) >= Len(prefix) /\ SubSeq(s, 1, Len(prefix)) = prefix
EndsWith(s, suffix) ==
    Len(s) >= Len(suffix) /\ SubSeq(s, Len(s) - Len(suffix) + 1, Len(s)) = suffix

ON_PREFIX == <<"O", "n", SP>>
WROTE_SUFFIX == <<SP, "w", "r", "o", "t", "e", COLON>>
ORIGINAL_MESSAGE == <<"o", "r", "i", "g", "i", "n", "a", "l", SP, "m", "e", "s", "s", "a", "g", "e">>

\* re.match(r"^On .+ wrote:$", line)
IsAttribution(l) ==
    /\ Len(l) >= Len(ON_PREFIX) + 1 + Len(WROTE_SUFFIX)
    /\ StartsWith(l, ON_PREFIX)
    /\ EndsWith(l, WROTE_SUFFIX)

\* the first position of l at or after i that holds none of the characters, or Len(l) + 1
SkipChars(l, i, chars) ==
    IF \E j \in i..Len(l) : l[j] \notin chars
    THEN CHOOSE j \in i..Len(l) : l[j] \notin chars /\ \A k \in i..(j - 1) : l[k] \in chars
    ELSE Len(l) + 1

\* re.match(r"^-+\s*Original Message", line, re.IGNORECASE)
IsDivider(l) ==
    /\ l # <<>> /\ l[1] = DASH
    /\ StartsWith(Lower(SubSeq(l, SkipChars(l, SkipChars(l, 1, {DASH}), {SP}), Len(l))),
                  ORIGINAL_MESSAGE)

\* line.startswith(">")
IsQuoted(l) == l # <<>> /\ l[1] = GT

RECURSIVE Cleaned(_)
\* the lines of the body before the first attribution, divider or quoted line
Cleaned(lines) ==
    IF lines = <<>> THEN <<>>
    ELSE IF IsAttribution(Head(lines)) \/ IsDivider(Head(lines)) \/ IsQuoted(Head(lines))
    THEN <<>>
    ELSE <<Head(lines)>> \o Cleaned(Tail(lines))

\* str.strip() of a text of several lines
StripText(s) ==
    LET keep == {i \in 1..Len(s) : s[i] \notin {SP, NL}} IN
    IF keep = {} THEN <<>>
    ELSE SubSeq(s, CHOOSE i \in keep : \A j \in keep : i <= j,
                   CHOOSE i \in keep : \A j \in keep : j <= i)

\* _strip_quoted_text(body), the body given as its lines
StripQuotedText(lines) == StripText(JoinWith(<<NL>>, Cleaned(lines)))

\* the number of unread messages of the mailbox up to position i
UnseenUpTo(box, i) == Cardinality({j \in 1..i : ~box[j].seen})

\* the mailbox once the first k unread messages were stored as \Seen
Stored(box, k) ==
    [i \in 1..Len(box) |->
        IF ~box[i].seen /\ UnseenUpTo(box, i) <= k THEN [box[i] EXCEPT !.seen = TRUE]
        ELSE box[i]]

RECURSIVE Bodies(_)
\* bodies: the stripped text of each unread message that has one
Bodies(box) ==
    IF box = <<>> THEN <<>>
    ELSE (IF ~Head(box).seen /\ StripQuotedText(Head(box).payload) # <<>>
          THEN <<StripQuotedText(Head(box).payload)>> ELSE <<>>)
         \o Bodies(Tail(box))

\* fetch_meal_plan_replies(): every unread reply is stored as \Seen, with or
\* without a body, and the bodies are returned; an exception (no password, no
\* connection, a failing command) after k of them ends it with []
FetchMealPlanReplies(box, k, ok) ==
    [inbox |-> Stored(box, k), replies |-> IF ok THEN Bodies(box) ELSE <<>>]

\* ------------------------------------------------------- meal_regenerator.main

\* the value of a text of digits
RECURSIVE NumVal(_)
NumVal(ds) ==
    IF ds = <<>> THEN 0 ELSE 10 * NumVal(SubSeq(ds, 1, Len(ds) - 1)) + DigitVal(ds[Len(ds)])

AllDigits(ds) == \A i \in 1..Len(ds) : ds[i] \in Digits

IsLeap(y) == (y % 4 = 0 /\ y % 100 # 0) \/ y % 400 = 0
DaysIn(y, m) ==
    IF m = 2 THEN (IF IsLeap(y) THEN 29 ELSE 28)
    ELSE IF m \in {4, 6, 9, 11} THEN 30 ELSE 31

NoDateTime == [ok |-> FALSE, y |-> 0, m |-> 0, d |-> 0]

\* datetime.strptime(text, "%Y-%m-%d"): four digits, one or two, one or two, that
\* name a day of the calendar; anything else is a ValueError
StrpTime(text) ==
    LET parts == Split(text, DASH) IN
    IF /\ Len(parts) = 3
       /\ Len(parts[1]) = 4 /\ Len(parts[2]) \in {1, 2} /\ Len(parts[3]) \in {1, 2}
       /\ \A i \in 1..3 : AllDigits(parts[i])
       /\ NumVal(parts[1]) >= 1
       /\ NumVal(parts[2]) \in 1..12
       /\ NumVal(parts[3]) \in 1..DaysIn(NumVal(parts[1]), NumVal(parts[2]))
    THEN [ok |-> TRUE, y |-> NumVal(parts[1]), m |-> NumVal(parts[2]), d |-> NumVal(parts[3])]
    ELSE NoDateTime

\* n as w digits, zero padded
RECURSIVE Padded(_, _)
Padded(n, w) == IF w = 0 THEN <<>> ELSE Padded(n \div 10, w - 1) \o <<DigitChars[(n % 10) + 1]>>

\* dt.strftime("%Y-%m-%d")
StrfTime(dt) == Padded(dt.y, 4) \o <<DASH>> \o Padded(dt.m, 2) \o <<DASH>> \o Padded(dt.d, 2)

\* row_date > latest
Later(a, b) == a.y * 10000 + a.m * 100 + a.d > b.y * 10000 + b.m * 100 + b.d

RECURSIVE Latest(_, _)
\* the loop of get_most_recent_date over the rows, latest the value so far
Latest(rows, latest) ==
    IF rows = <<>> THEN latest
    ELSE LET row_date == StrpTime(Head(rows).date) IN
         Latest(Tail(rows),
                IF row_date.ok /\ (~latest.ok \/ Later(row_date, latest)) THEN row_date ELSE latest)

\* get_most_recent_date(): None without a file or without a row that carries a date
GetMostRecentDate(file) ==
    IF ~file.exists \/ ~Latest(file.rows, NoDateTime).ok THEN NoDate
    ELSE StrfTime(Latest(file.rows, NoDateTime))

\* an exception out of send_revised_meal_plan_email
SendRevisedError == [NoOutcome EXCEPT !.kind = "send_revised_error"]

\* 1. replies = fetch_meal_plan_replies(); if not replies: return
RegenFetchReplies ==
    /\ program = "meal_regenerator"
    /\ pc = "fetch_replies"
    /\ \E k \in 0..UnseenUpTo(inbox, Len(inbox)), ok \in BOOLEAN :
          /\ ok => k = UnseenUpTo(inbox, Len(inbox))
          /\ inbox' = FetchMealPlanReplies(inbox, k, ok).inbox
          /\ replies' = FetchMealPlanReplies(inbox, k, ok).replies
    /\ pc' = IF replies' = <<>> THEN "regen_return" ELSE "recent_date"
    /\ UNCHANGED <<meals, valid, warned, csv, mail, caught, exit_status>>
    /\ UNCHANGED <<program, csv_at_entry, date>>
    /\ UNCHANGED CallAndReaders

\* 2. date = get_most_recent_date(); if not date: return
RegenMostRecentDate ==
    /\ pc = "recent_date"
    /\ \E ok \in BOOLEAN :
          IF ok
          THEN /\ date' = GetMostRecentDate(csv)
               /\ pc' = IF date' = NoDate THEN "regen_return" ELSE "current_meals"
               /\ UNCHANGED caught
          ELSE caught' = OSErrorRaised /\ pc' = "regen_except" /\ UNCHANGED date
    /\ UNCHANGED <<meals, valid, warned, csv, mail, exit_status>>
    /\ UNCHANGED <<program, csv_at_entry, inbox, replies>>
    /\ UNCHANGED CallAndReaders

\* 3. current_meals = get_latest_meal_plan(date); if not current_meals: return
RegenCurrentMeals ==
    /\ pc = "current_meals"
    /\ pc' = IF GetLatestMealPlan(csv, date) = <<>> THEN "regen_return" ELSE "regen_excluded"
    /\ UNCHANGED <<meals, valid, warned, csv, mail, caught, exit_status>>
    /\ UNCHANGED RegenVars
    /\ UNCHANGED CallAndReaders

\* 4. excluded = read_recent_recipes(): returns, or a file error leaves the try block
RegenReadRecentRecipes ==
    /\ pc = "regen_excluded"
    /\ \E ok \in BOOLEAN :
          IF ok THEN pc' = "regen_prompt" /\ UNCHANGED caught
          ELSE caught' = OSErrorRaised /\ pc' = "regen_except"
    /\ UNCHANGED <<meals, valid, warned, csv, mail, exit_status>>
    /\ UNCHANGED RegenVars
    /\ UNCHANGED CallAndReaders

\* 5., 6. feedback = "\n\n".join(replies);
\* prompt = build_regeneration_prompt(current_meals, feedback, excluded)
RegenBuildPrompt ==
    /\ pc = "regen_prompt"
    /\ pc' = "regen_call"
    /\ UNCHANGED <<meals, valid, warned, csv, mail, caught, exit_status>>
    /\ UNCHANGED RegenVars
    /\ UNCHANGED CallAndReaders

\* 7. structured = call_claude(prompt): the call is entered
RegenCallClaude ==
    /\ pc = "regen_call"
    /\ pc' = "popen"
    /\ UNCHANGED <<meals, valid, warned, csv, mail, caught, exit_status>>
    /\ UNCHANGED RegenVars
    /\ UNCHANGED CallAndReaders

\* call_claude has returned or raised; meals = structured.get("meals", []);
\* len(meals) for the log line
RegenGetMeals ==
    /\ program = "meal_regenerator"
    /\ pc = "done"
    /\ IF outcome.kind # "returned"
       THEN caught' = outcome /\ pc' = "regen_except" /\ UNCHANGED meals
       ELSE IF outcome.val.t # "obj"
       THEN caught' = AttributeError /\ pc' = "regen_except" /\ UNCHANGED meals
       ELSE IF DictGet(outcome.val, KEY_MEALS, JArr(<<>>)).t \in {"null", "num", "bool"}
       THEN caught' = TypeError /\ pc' = "regen_except" /\ UNCHANGED meals
       ELSE meals' = DictGet(outcome.val, KEY_MEALS, JArr(<<>>)) /\ pc' = "regen_validate"
            /\ UNCHANGED caught
    /\ UNCHANGED <<valid, warned, csv, mail, exit_status>>
    /\ UNCHANGED RegenVars
    /\ UNCHANGED CallAndReaders

\* 8. meals = validate_meals(meals)
RegenValidate ==
    /\ pc = "regen_validate"
    /\ valid' = ValidateMeals(meals).outcome
    /\ warned' = warned \o ValidateMeals(meals).warned
    /\ IF ValidateMeals(meals).outcome.kind = "returned"
       THEN pc' = "regen_check" /\ UNCHANGED caught
       ELSE caught' = ValidateMeals(meals).outcome /\ pc' = "regen_except"
    /\ UNCHANGED <<meals, csv, mail, exit_status>>
    /\ UNCHANGED RegenVars
    /\ UNCHANGED CallAndReaders

\* a regenerator that goes on with an empty list
RegenCheckMeals_NoSkip ==
    /\ pc = "regen_check"
    /\ pc' = "overwrite"
    /\ UNCHANGED <<meals, valid, warned, csv, mail, caught, exit_status>>
    /\ UNCHANGED RegenVars
    /\ UNCHANGED CallAndReaders

\* if not meals: log.error("No valid meals returned from Claude, aborting"); return
RegenCheckMeals ==
    /\ pc = "regen_check"
    /\ pc' = IF valid.val.items = <<>> THEN "regen_return" ELSE "overwrite"
    /\ UNCHANGED <<meals, valid, warned, csv, mail, caught, exit_status>>
    /\ UNCHANGED RegenVars
    /\ UNCHANGED CallAndReaders

\* 9. overwrite_meal_plan(meals, date): the file is rewritten, or a file error
\* leaves the try block: before the file was opened for writing, or after the
\* header and the first k rows went into the emptied file
RegenOverwrite ==
    /\ pc = "overwrite"
    /\ \/ /\ csv' = OverwriteMealPlan(csv, valid.val.items, date)
          /\ pc' = "send_revised"
          /\ UNCHANGED caught
       \/ /\ UNCHANGED csv
          /\ caught' = OSErrorRaised
          /\ pc' = "regen_except"
       \/ /\ csv.exists
          /\ \E k \in 0..(Len(OverwriteMealPlan(csv, valid.val.items, date).rows) - 1) :
                csv' = [exists |-> TRUE,
                        rows |-> SubSeq(OverwriteMealPlan(csv, valid.val.items, date).rows, 1, k)]
          /\ caught' = OSErrorRaised
          /\ pc' = "regen_except"
    /\ UNCHANGED <<meals, valid, warned, mail, exit_status>>
    /\ UNCHANGED RegenVars
    /\ UNCHANGED CallAndReaders

\* 10. send_revised_meal_plan_email(meals, date)
RegenSendRevised ==
    /\ pc = "send_revised"
    /\ \E ok \in SendOutcomes :
          /\ mail' = Append(mail, [kind |-> "revised", ok |-> ok])
          /\ IF ok THEN pc' = "regen_finished" /\ UNCHANGED caught
             ELSE caught' = SendRevisedError /\ pc' = "regen_except"
    /\ UNCHANGED <<meals, valid, warned, csv, exit_status>>
    /\ UNCHANGED RegenVars
    /\ UNCHANGED CallAndReaders

\* except subprocess.TimeoutExpired / except Exception: log.error(...)
RegenExcept ==
    /\ pc = "regen_except"
    /\ pc' = "regen_finished"
    /\ UNCHANGED <<meals, valid, warned, csv, mail, caught, exit_status>>
    /\ UNCHANGED RegenVars
    /\ UNCHANGED CallAndReaders

\* main returns, early or after log.info("Meal regenerator finished"): the
\* process ends with status 0
RegenReturn ==
    /\ pc \in {"regen_return", "regen_finished"}
    /\ exit_status' = <<0>>
    /\ pc' = "exited"
    /\ UNCHANGED <<meals, valid, warned, csv, mail, caught>>
    /\ UNCHANGED RegenVars
    /\ UNCHANGED CallAndReaders

\* the replies the mailbox may hold: feedback above the quoted plan, a reply with
\* nothing above the quotation, feedback above a divider
LINE_FEEDBACK == <<"n", "o", SP, "f", "i", "s", "h">>
LINE_ATTRIBUTION == <<"O", "n", SP, "1", SP, "w", "r", "o", "t", "e", COLON>>
LINE_QUOTED == <<GT, SP, "p", "l", "a", "n">>
LINE_DIVIDER == <<DASH, DASH, SP, "O", "r", "i", "g", "i", "n", "a", "l", SP,
                  "M", "e", "s", "s", "a", "g", "e", SP, DASH, DASH>>

Unread(payload) == [payload |-> payload, seen |-> FALSE]
R_FEEDBACK == Unread(<<LINE_FEEDBACK, <<>>, LINE_ATTRIBUTION, LINE_QUOTED>>)
R_QUOTED_ONLY == Unread(<<LINE_QUOTED, LINE_FEEDBACK>>)
R_DIVIDER == Unread(<<TXT_OK, LINE_DIVIDER, LINE_FEEDBACK>>)

Inboxes == { <<>>, <<R_FEEDBACK>>, <<R_QUOTED_ONLY>>, <<R_DIVIDER, R_FEEDBACK>> }

\* a date somebody typed into the file without the zeros
UNPADDED == <<"2", "0", "2", "6", "-", "1", "-", "2", "0">>

\* the history files the regenerator may find
RegenFiles ==
    { NoFile,
      [exists |-> TRUE, rows |-> <<Row(M_WEB, EARLIER), Row(M_NOTION, TODAY), Row(M_WEB, TODAY)>>],
      [exists |-> TRUE, rows |-> <<Row(M_WEB, TODAY), Row(M_NOTION, UNPADDED)>>] }

\* what the CLI answers the two programs with
SiteStdoutTexts ==
    { Encode(Obj1(KEY_PRIMARY, P_GOOD), <<>>),
      Encode(Obj1(KEY_SECONDARY, Txt(P_WEB)), <<>>),
      Encode(Obj1(KEY_PRIMARY, P_EMPTY), <<>>),
      Encode(Obj1(KEY_PRIMARY, P_ONE), <<>>),
      Encode(Obj1(KEY_PRIMARY, JArr(<<JNum(1)>>)), <<>>),
      <<"n", "o", "t", " ", "j", "s", "o", "n">> }

\* meal_regenerator.main is entered
RegenInit ==
    /\ pc = "fetch_replies"
    /\ program = "meal_regenerator"
    /\ scenario \in {[out |-> o, err |-> DefaultErr] : o \in SiteStdoutTexts}
    /\ CallInit
    /\ environ = DefaultEnviron
    /\ env = NoEnv
    /\ ValidateInit
    /\ csv \in RegenFiles
    /\ csv_at_entry = csv
    /\ inbox \in Inboxes
    /\ replies = <<>>
    /\ date = NoDate
    /\ mail = <<>>
    /\ caught = NoOutcome
    /\ exit_status = NoCode

\* meal_planner.main is entered
PlannerInit ==
    /\ pc = "read_history"
    /\ program = "meal_planner"
    /\ scenario \in {[out |-> o, err |-> DefaultErr] : o \in SiteStdoutTexts}
    /\ CallInit
    /\ environ = DefaultEnviron
    /\ env = NoEnv
    /\ ValidateInit
    /\ csv \in CsvFiles
    /\ csv_at_entry = csv
    /\ inbox = <<>>
    /\ replies = <<>>
    /\ date = NoDate
    /\ mail = <<>>
    /\ caught = NoOutcome
    /\ exit_status = NoCode

RegenNext ==
    \/ RegenFetchReplies \/ RegenMostRecentDate \/ RegenCurrentMeals
    \/ RegenReadRecentRecipes \/ RegenBuildPrompt \/ RegenCallClaude \/ RegenGetMeals
    \/ RegenValidate \/ RegenCheckMeals \/ RegenOverwrite \/ RegenSendRevised
    \/ RegenExcept \/ RegenReturn

\* the two cron programs, each run from its entry to its end
CronInit == PlannerInit \/ RegenInit
CronNext == RegenNext \/ MainNext
CronSpec == CronInit /\ [][CronNext]_vars

\* ------------------------------------------------------------------ claims

\* what the child has written to stdout and to stderr so far
Written == SubSeq(scenario.out, 1, outSent)
WrittenLines == SubSeq(scenario.err, 1, errSent)

\* call_claude has ended without a timeout, the child having exited with `code`
EndedAfterExit(code) == pc = "done" /\ ~timedOut /\ returncode = <<code>>

TimeoutPath == {"kill", "tjoin_out", "tjoin_err", "log_out", "log_err", "done"}

\* the places at which the caller reads stdout_chunks or stderr_lines
ReadsBuffers == {"log_out", "log_err", "join_text", "check_rc"}

\* C1: whenever call_claude has returned or raised, the child has been reaped and
\* both reader threads have ended with their pipes drained to end-of-stream.
C1_ReapedAndDrainedAtEnd ==
    pc = "done" =>
        /\ child = "reaped"
        /\ rdOut = "done" /\ rdErr = "done"
        /\ AtEof(outPipe) /\ AtEof(errPipe)

\* C2: a child still running at the deadline is killed there; from then on
\* call_claude only walks the timeout path, it ends by raising TimeoutExpired and
\* nothing else, at most two join timeouts after the deadline, the child dead.
C2_TimeoutKillsAndRaises ==
    /\ child = "running" => now <= CLAUDE_TIMEOUT_SECONDS
    /\ (child = "running" /\ WaitExpired(now)) => pc \in {"wait", "kill"}
    /\ timedOut => pc \in TimeoutPath
    /\ (timedOut /\ pc # "kill") => child \in {"killed", "reaped"}
    /\ (timedOut /\ pc = "done") =>
          /\ outcome = TimeoutExpired
          /\ now <= CLAUDE_TIMEOUT_SECONDS + 2 * JOIN_TIMEOUT

\* the timeout path at its slowest: both joins gave up on a reader that still runs
C2_Witness ==
    /\ timedOut /\ pc = "done"
    /\ child = "killed"
    /\ now = CLAUDE_TIMEOUT_SECONDS + 2 * JOIN_TIMEOUT
    /\ rdOut = "reading" /\ rdErr = "reading"

\* C3: call_claude is no longer blocked once the timeout (and the grace of the
\* two timed joins) has elapsed, whatever the child and its pipes do.
C3_NotBlockedPastDeadline ==
    now > CLAUDE_TIMEOUT_SECONDS + 2 * JOIN_TIMEOUT => pc = "done"

\* C4: wherever the caller reads stdout_chunks or stderr_lines, both reader
\* threads have ended.
C4_BuffersReadAfterReaders ==
    pc \in ReadsBuffers => (rdOut = "done" /\ rdErr = "done")

\* C5: while the child runs and the threads have been started, both readers are
\* running, and a reader whose pipe holds data can take it whatever the state of
\* the other pipe and the other reader: a child blocked on one full pipe is
\* always released by that pipe's own reader.
C5_ReadersIndependent ==
    (child = "running" /\ pc \notin {"popen", "start_out", "start_err", "done"}) =>
        /\ rdOut = "reading" /\ rdErr = "reading"
        /\ outPipe # <<>> => CanReadStdout
        /\ errPipe # <<>> => CanStreamStderr
        /\ (Len(outPipe) = PipeCap \/ Len(errPipe) = PipeCap) =>
              (CanReadStdout \/ CanStreamStderr)

\* the child is blocked on a full stderr pipe while stdout is idle, and the
\* other way round is covered by the same run: here both pipes are full
C5_Witness ==
    /\ child = "running" /\ pc = "wait"
    /\ Len(errPipe) = PipeCap /\ errSent < Len(scenario.err)
    /\ Len(outPipe) = PipeCap
    /\ now < CLAUDE_TIMEOUT_SECONDS

\* the two ways the CLI may space its output
Gaps == {<<>>, <<SP>>}

RECURSIVE Retained(_)
\* the lines stream_stderr keeps of the raw lines, in order
Retained(raw) ==
    IF raw = <<>> THEN <<>>
    ELSE (IF RStrip(Head(raw)) = <<>> THEN <<>> ELSE <<RStrip(Head(raw))>>) \o Retained(Tail(raw))

\* the stderr the child wrote, as captured and joined with single spaces
JoinedStderr == JoinWith(<<SP>>, Retained(WrittenLines))

\* C6 as stated: after a non-zero exit without timeout, call_claude raises the
\* failure carrying the exit code and the last 500 characters of the joined stderr.
C6_NonZeroExitStderrTail ==
    \A code \in ExitCodes \ {0} :
        EndedAfterExit(code) =>
            outcome = NonZeroExit(<<code>>, Tail_n(JoinedStderr, DIAG_LIMIT))

\* C6 as amended: after a non-zero exit without timeout, call_claude raises the
\* failure carrying the exit code and the first 500 characters of the stderr
\* lines joined with single spaces.
C6_NonZeroExitStderrHead ==
    \A code \in ExitCodes \ {0} :
        EndedAfterExit(code) =>
            outcome = NonZeroExit(<<code>>, Head_n(JoinedStderr, DIAG_LIMIT))

\* a non-zero exit with more than 500 characters of stderr, whose two ends differ
C6_Witness ==
    /\ \E code \in ExitCodes \ {0} : EndedAfterExit(code)
    /\ outcome.kind = "nonzero_exit"
    /\ Len(JoinedStderr) > DIAG_LIMIT
    /\ Head_n(JoinedStderr, DIAG_LIMIT) # Tail_n(JoinedStderr, DIAG_LIMIT)

\* C7: exit code zero, no timeout, stdout the encoding of an object that holds a
\* value other than null under "structured_output": call_claude returns exactly
\* that value, whatever "result" holds.
C7_PrimaryKeyIdentity ==
    EndedAfterExit(0) =>
        \A v \in PrimaryEnvelopes : \A g \in Gaps :
            (Written = Encode(v, g) /\ DictGet(v, KEY_PRIMARY, PyNone) # JNull) =>
                outcome = Returned(DictGet(v, KEY_PRIMARY, PyNone))

\* the primary key wins over a "result" that holds another object
C7_Witness ==
    /\ EndedAfterExit(0)
    /\ Written = Encode(Obj2(KEY_PRIMARY, P_ONE, KEY_SECONDARY, P_EMPTY), <<SP>>)
    /\ outcome = Returned(P_ONE)

\* the objects a "result" string of the scenarios may encode
InnerObjects == {P_EMPTY, P_ONE, EmptyObj, Obj1(KEY_TYPE, JStr(<<QUOTE, BACKSLASH>>))}

\* C8: exit code zero, no timeout, no "structured_output" in the envelope: if
\* "result" holds an object, that object is returned; if it holds a string that
\* is the JSON encoding of an object, the object it encodes is returned.
C8_FallbackEquivalence ==
    EndedAfterExit(0) =>
        \A v \in SecondaryEnvelopes : \A g \in Gaps :
            Written = Encode(v, g) =>
                LET r == DictGet(v, KEY_SECONDARY, PyNone) IN
                /\ r.t = "obj" => outcome = Returned(r)
                /\ r.t = "str" =>
                      \A o \in InnerObjects : \A h \in Gaps :
                          Strip(r.s) = Encode(o, h) => outcome = Returned(o)

\* stdout = {"result": "{\"meals\": []}"}: the nested parse gives {"meals": []}
C8_Witness ==
    /\ EndedAfterExit(0)
    /\ Written = Encode(Obj1(KEY_SECONDARY, Txt(P_EMPTY)), <<>>)
    /\ outcome = Returned(P_EMPTY)

\* strings of the scenarios that are no JSON text
UnparseableTexts == {TXT_OK, <<LBRACE, QUOTE>>}

\* "result" is absent, blank, neither string nor object, or an unparseable string
NoUsableResult(v) ==
    LET r == DictGet(v, KEY_SECONDARY, PyNone) IN
    \/ KeyIndex(v.keys, KEY_SECONDARY) = 0
    \/ r.t \notin {"str", "obj"}
    \/ r.t = "str" /\ (Strip(r.s) = <<>> \/ r.s \in UnparseableTexts)

\* C9: exit code zero, no timeout, no "structured_output" and no usable
\* "result": call_claude raises the missing-payload error listing exactly the
\* top-level keys of the envelope, in their order, and nothing else.
C9_MissingPayloadListsKeys ==
    EndedAfterExit(0) =>
        \A v \in SecondaryEnvelopes : \A g \in Gaps :
            (Written = Encode(v, g) /\ NoUsableResult(v)) =>
                outcome = MissingPayload(v.keys)

\* a "result" string that fails the nested parse, next to another key
C9_Witness ==
    /\ EndedAfterExit(0)
    /\ Written = Encode(Obj2(KEY_TYPE, JStr(TXT_OK), KEY_SECONDARY, JStr(TXT_OK)), <<>>)
    /\ outcome = MissingPayload(<<KEY_TYPE, KEY_SECONDARY>>)

\* C10: when stdout is no JSON document, the lookup and the fallback are never
\* reached, and with exit code zero and no timeout call_claude ends with the
\* JSON-parse error.
C10_MalformedStdoutFailsAtParse ==
    /\ pc \in {"lookup", "decide"} => JsonLoads(Written).ok
    /\ (EndedAfterExit(0) /\ ~JsonLoads(Written).ok) => outcome = JSONDecodeError

\* stdout = not json
C10_Witness ==
    /\ EndedAfterExit(0)
    /\ Written = <<"n", "o", "t", " ", "j", "s", "o", "n">>
    /\ outcome = JSONDecodeError

\* the kinds of failure the error taxonomy names
IdentifiedFailures == {"timeout", "nonzero_exit", "json_error", "missing_payload"}

\* C16: call_claude ends by returning a payload or by raising one of the
\* identified failures: timeout, non-zero exit, malformed JSON, missing payload.
C16_FailuresAreIdentified ==
    pc = "done" => outcome.kind \in {"returned"} \cup IdentifiedFailures

\* the places at which the caller interprets stdout
InterpretsStdout == {"parse", "lookup", "decide"}

\* C17: after a non-zero exit without timeout call_claude raises the non-zero-exit
\* failure whatever stdout holds, and stdout is never interpreted; a payload is
\* returned only without timeout, after exit code zero, both readers ended.
C17_ExitStatusCheckedFirst ==
    /\ (pc = "done" /\ ~timedOut /\ returncode # <<0>>) =>
          (outcome.kind = "nonzero_exit" /\ outcome.code = returncode /\ response = PyNone)
    /\ pc \in InterpretsStdout => (returncode = <<0>> /\ ~timedOut)
    /\ outcome.kind = "returned" =>
          /\ returncode = <<0>> /\ exitCode = <<0>> /\ ~timedOut
          /\ rdOut = "done" /\ rdErr = "done"

\* exit code 1 with a complete, valid envelope on stdout
C17_Witness ==
    /\ pc = "done" /\ ~timedOut
    /\ returncode = <<1>>
    /\ stdout_text = DefaultOut
    /\ outcome.kind = "nonzero_exit"

\* the raw stderr lines t_err has taken out of the pipe
ReadLines == SubSeq(scenario.err, 1, errSent - Len(errPipe))

\* C18: stderr_lines is, in order, the right-stripped non-blank lines read so
\* far, up to the line in hand; the log holds the same lines in the same order,
\* ahead of stderr_lines by the line in hand once that is logged and not yet
\* appended.
C18_StderrOrderPreserved ==
    /\ Retained(ReadLines) = stderr_lines \o (IF errStep # "readline" THEN <<line>> ELSE <<>>)
    /\ logged = stderr_lines \o (IF errStep = "append" THEN <<line>> ELSE <<>>)

\* "err 1  ", "", "warn" read: the second retained line is logged and not yet appended
C18_Witness ==
    /\ scenario.err = <<LINE_ERR, <<>>, LINE_WARN>>
    /\ errStep = "append"
    /\ stderr_lines = <<RStrip(LINE_ERR)>>
    /\ logged = <<RStrip(LINE_ERR), LINE_WARN>>

\* C19: the two diagnostics of the timeout path hold all the child wrote to
\* stdout and every stderr line it wrote, each cut to 500 characters.
C19_TimeoutDiagnosticsComplete ==
    (pc = "done" /\ timedOut) =>
        /\ diag.out = Head_n(Written, DIAG_LIMIT)
        /\ diag.err = Head_n(JoinWith(<<SP, "|", SP>>, Retained(WrittenLines)), DIAG_LIMIT)

\* C11: validate_meals never raises: whatever the elements of the list are, it
\* ends by returning a list.
C11_ValidateNeverRaises ==
    pc \in {"validated", "revalidated"} => (valid.kind = "returned" /\ valid.val.t = "arr")

\* every element of the list is a record
AllRecords(l) == \A i \in 1..Len(l) : l[i].t = "obj"

\* the record carries the field
Carries(m, k) == \E j \in 1..Len(m.keys) : m.keys[j] = k

\* the positions of the list whose record carries all three fields
Complete(l) ==
    {i \in 1..Len(l) : Carries(l[i], KEY_RECIPE_NAME) /\ Carries(l[i], KEY_SOURCE) /\ Carries(l[i], KEY_URL)}

\* the n-th position of the set, counted upwards
NthOf(S, n) == CHOOSE i \in S : Cardinality({j \in S : j < i}) = n - 1

\* C12: for a list of records, validate_meals returns the input elements that
\* carry recipe_name, source and url, unaltered and in their order, and nothing
\* else, whether or not the total, notion and web counts are the expected ones.
C12_ReturnsCompleteRecordsInOrder ==
    (pc = "validated" /\ AllRecords(meals.items)) =>
        /\ valid.kind = "returned"
        /\ valid.val.t = "arr"
        /\ Len(valid.val.items) = Cardinality(Complete(meals.items))
        /\ \A n \in 1..Len(valid.val.items) :
              /\ valid.val.items[n] = meals.items[NthOf(Complete(meals.items), n)]
              /\ \A i \in 1..Len(RequiredFields) : Carries(valid.val.items[n], RequiredFields[i])

\* one record dropped out of three, all three counts off: two records returned
C12_Witness ==
    /\ pc = "validated"
    /\ meals = JArr(<<M_WEB, M_NOURL, M_NULLURL>>)
    /\ valid = Returned(JArr(<<M_WEB, M_NULLURL>>))
    /\ Len(warned) = 4

\* C13: validating the list validate_meals returned returns that list again.
C13_ValidateIdempotent ==
    pc = "revalidated" => valid = Returned(meals)

\* the first call dropped a record and returned two, the second returns the two
C13_Witness ==
    /\ pc = "revalidated"
    /\ meals.items = <<M_OTHER, M_NOTION>>
    /\ valid = Returned(meals)
    /\ \E i \in 1..Len(warned) : warned[i].kind = "skipping"

\* the entries of the PATH of environment e, as the search path reads them;
\* an environment without PATH has none
PathOf(e) ==
    IF KeyIndex(e.keys, ENV_PATH) = 0 THEN <<>> ELSE Split(DictGet(e, ENV_PATH, <<>>), COLON)

Count(seq, p) == Cardinality({i \in 1..Len(seq) : seq[i] = p})
FirstIndex(seq, p) == CHOOSE i \in 1..Len(seq) : seq[i] = p /\ \A j \in 1..(i - 1) : seq[j] # p

RECURSIVE Missing(_, _)
\* the elements of `required` that `existing` lacks, in their order
Missing(required, existing) ==
    IF required = <<>> THEN <<>>
    ELSE (IF Contains(existing, Head(required)) THEN <<>> ELSE <<Head(required)>>)
         \o Missing(Tail(required), existing)

\* the required paths get_claude_env had to insert, in the order of the fixed list
Inserted(e) == Missing(RequiredPaths(e), PathOf(e))

\* C14 as stated: the PATH built holds every required directory, none inserted
\* more than once, and the first occurrences of the required directories follow
\* the order of the fixed list.
C14_RequiredPathsInFixedOrder ==
    pc = "got_env" =>
        LET req == RequiredPaths(environ) IN
        /\ \A i \in 1..Len(req) :
              /\ Contains(PathOf(env), req[i])
              /\ Count(PathOf(env), req[i]) <= Count(PathOf(environ), req[i]) + 1
        /\ \A i, j \in 1..Len(req) :
              i < j => FirstIndex(PathOf(env), req[i]) < FirstIndex(PathOf(env), req[j])

\* C14 as amended: the PATH built holds every required directory; exactly the
\* required directories absent from the inherited PATH are inserted, once each;
\* the inserted ones come first, in the order of the fixed list, before every
\* inherited entry; a required directory already present is not repeated.
C14_MissingPathsPrepended ==
    pc = "got_env" =>
        LET req == RequiredPaths(environ)
            ins == Inserted(environ)
        IN
        /\ \A i \in 1..Len(req) :
              /\ Contains(PathOf(env), req[i])
              /\ Count(PathOf(env), req[i]) =
                    IF Contains(PathOf(environ), req[i])
                    THEN Count(PathOf(environ), req[i]) ELSE 1
        /\ Len(PathOf(env)) >= Len(ins)
        /\ SubSeq(PathOf(env), 1, Len(ins)) = ins

\* inherited PATH = /bin:/usr/bin: both stay where they were, in the order
\* opposite to the fixed list, behind the six directories inserted
C14_Witness ==
    /\ pc = "got_env"
    /\ PathOf(environ) = <<DIR_BIN, DIR_USR_BIN>>
    /\ PathOf(env) = << HomeDir(environ) \o LOCAL_BIN, DIR_BREW_BIN, DIR_BREW_SBIN,
                        DIR_USR_LOCAL_BIN, DIR_USR_SBIN, DIR_SBIN, DIR_BIN, DIR_USR_BIN >>

\* C15: get_claude_env leaves os.environ as it was; the dict it returns has no
\* CLAUDECODE, holds every other inherited variable except PATH with its
\* inherited value, and its PATH is the inherited entries, in their order,
\* behind the required directories inserted, with no further entry.
C15_NarrowEffect ==
    [][pc' = "got_env" =>
          /\ environ' = environ
          /\ KeyIndex(env'.keys, ENV_CLAUDECODE) = 0
          /\ \A i \in 1..Len(environ.keys) :
                environ.keys[i] \notin {ENV_PATH, ENV_CLAUDECODE} =>
                    /\ KeyIndex(env'.keys, environ.keys[i]) # 0
                    /\ DictGet(env', environ.keys[i], <<>>) = environ.vals[i]
          /\ \A i \in 1..Len(env'.keys) :
                env'.keys[i] # ENV_PATH => KeyIndex(environ.keys, env'.keys[i]) # 0
          /\ PathOf(env') = Inserted(environ) \o PathOf(environ)]_vars

\* the attempts to send an email of the kind
Attempts(kind) == {i \in 1..Len(mail) : mail[i].kind = kind}

\* the positions of main from the call of append_meal_plan on
FromAppendOn == {"append", "send", "finish", "except", "exit", "exited"}

\* C20: main appends to the history file at most once, only after call_claude
\* returned and validate_meals returned a non-empty list; the meal-plan email is
\* sent only after the whole append; the process ends with status 0 only after
\* both, and on every failing path (timeout, any other exception, empty list) with
\* status 1 after one attempt at the failure email, whether that attempt worked or not.
C20_MainStepsGated ==
    LET written == DatedRows(csv.rows, TODAY)
        expected == Rows(valid.val.items, TODAY)
    IN
    /\ written # <<>> =>
          /\ outcome.kind = "returned"
          /\ valid.kind = "returned" /\ valid.val.items # <<>>
          /\ pc \in FromAppendOn
          /\ Len(written) <= Len(expected)
          /\ written = SubSeq(expected, 1, Len(written))
    /\ Attempts("plan") # {} => (written = expected /\ expected # <<>>)
    /\ Cardinality(Attempts("plan")) <= 1
    /\ Cardinality(Attempts("failure")) <= 1
    /\ exit_status # NoCode => pc = "exited"
    /\ pc = "exited" =>
          /\ exit_status \in {<<0>>, <<1>>}
          /\ exit_status = <<0>> =>
                /\ caught = NoOutcome
                /\ written = expected /\ expected # <<>>
                /\ mail = <<[kind |-> "plan", ok |-> TRUE]>>
          /\ exit_status = <<1>> =>
                /\ caught # NoOutcome
                /\ Cardinality(Attempts("failure")) = 1
                /\ mail[Len(mail)].kind = "failure"
          /\ ( \/ outcome.kind \notin {"returned", "none"}
               \/ valid.kind \notin {"returned", "none"}
               \/ (valid.kind = "returned" /\ valid.val.items = <<>>)
               \/ caught # NoOutcome ) => exit_status = <<1>>

\* the plan was appended to the file of an earlier run, the meal-plan email
\* failed, the failure email failed too: status 1
C20_Witness ==
    /\ pc = "exited"
    /\ exit_status = <<1>>
    /\ csv.rows = <<Row(M_WEB, EARLIER), Row(M_NOTION, TODAY)>>
    /\ mail = <<[kind |-> "plan", ok |-> FALSE], [kind |-> "failure", ok |-> FALSE]>>

\* C23: whenever call_claude returns, what it returns is a JSON object, whether
\* it came from "structured_output", from an object under "result" or from the
\* nested parse of a string under "result".
C23_ReturnsObject ==
    outcome.kind = "returned" => outcome.val.t = "obj"

RowsOfOtherDates(rows, day) == SelectSeq(rows, LAMBDA r : r.date # day)

\* the row dict holds the very values of the meal: meal["source"],
\* meal["recipe_name"] and meal.get("url", "")
HoldsValuesOf(row, meal) ==
    /\ JStr(row.source) = DictGet(meal, KEY_SOURCE, PyNone)
    /\ JStr(row.recipe_name) = DictGet(meal, KEY_RECIPE_NAME, PyNone)
    /\ JStr(row.url) = DictGet(meal, KEY_URL, JStr(<<>>))

\* the row dict holds the values of the meal as csv text: a string as it is,
\* None as the empty text, a missing url as the empty text
HoldsTextOf(row, meal) ==
    /\ row.source = CsvField(DictGet(meal, KEY_SOURCE, PyNone))
    /\ row.recipe_name = CsvField(DictGet(meal, KEY_RECIPE_NAME, PyNone))
    /\ row.url = CsvField(DictGet(meal, KEY_URL, JStr(<<>>)))

\* what one call of overwrite_meal_plan(ms, day) made of the file
Replaced(before, after, ms, day, Holds(_, _)) ==
    /\ ~before.exists => after = before
    /\ before.exists =>
          /\ after.exists
          /\ RowsOfOtherDates(after.rows, day) = RowsOfOtherDates(before.rows, day)
          /\ Len(after.rows) = Len(RowsOfOtherDates(before.rows, day)) + Len(ms)
          /\ LET got == GetLatestMealPlan(after, day) IN
             /\ Len(got) = Len(ms)
             /\ \A i \in 1..Len(ms) : got[i].date = day /\ Holds(got[i], ms[i])

\* C22: overwrite_meal_plan(meals, date) changes nothing without a file; on a file
\* it keeps the rows of the other dates, in their order, keeps no row the date had,
\* and get_latest_meal_plan(date) then returns exactly the new meals, in order;
\* a second identical call leaves the file as the first one left it.
C22_OverwriteReturnsNewMeals ==
    [][ /\ (pc = "overwrite_meal_plan" /\ pc' = "overwritten") =>
               Replaced(csv, csv', meals.items, date, HoldsValuesOf)
        /\ (pc = "overwritten" /\ pc' = "overwritten_twice") => csv' = csv ]_vars

\* C22, amended: as above, but get_latest_meal_plan(date) returns one row for each
\* new meal, in order, that holds the date and the meal's source, recipe_name and
\* url as csv text: a null or missing url comes back as the empty string.
C22_OverwriteReplacesDate ==
    [][ /\ (pc = "overwrite_meal_plan" /\ pc' = "overwritten") =>
               Replaced(csv, csv', meals.items, date, HoldsTextOf)
        /\ (pc = "overwritten" /\ pc' = "overwritten_twice") => csv' = csv ]_vars

\* two rows of the day between rows of an earlier day are replaced, twice, by a
\* meal whose url is null and one that has none
C22_Witness ==
    /\ pc = "overwritten_twice"
    /\ date = TODAY
    /\ meals = JArr(<<M_NULLURL, M_NOURL>>)
    /\ csv_at_entry.rows = <<Row(M_NOTION, TODAY), Row(M_NOTION, EARLIER),
                             Row(M_WEB, TODAY), Row(M_WEB, EARLIER)>>
    /\ csv.rows = <<Row(M_NOTION, EARLIER), Row(M_WEB, EARLIER),
                    Row(M_NULLURL, TODAY), Row(M_NOURL, TODAY)>>
    /\ GetLatestMealPlan(csv, TODAY)[1].url = <<>>

\* validate_meals returned the empty list
EmptyResult == valid.kind = "returned" /\ valid.val.items = <<>>

\* validate_meals returned a list that is not empty
UsableResult ==
    outcome.kind = "returned" /\ valid.kind = "returned" /\ valid.val.items # <<>>

\* the positions of meal_regenerator.main from the call of overwrite_meal_plan on
FromOverwriteOn == {"overwrite", "send_revised", "regen_except", "regen_finished", "exited"}

\* C21: an empty validated list is fatal in meal_planner.main (the failure email
\* is tried, exit status 1, the history file untouched) and a skip in
\* meal_regenerator.main; the regenerator ends every run with status 0, whatever
\* failed, touches the history file only after a validated list that is not empty,
\* and tries the revised email only after the whole overwrite.
C21_CallSitesDiffer ==
    /\ (program = "meal_planner" /\ pc = "exited" /\ EmptyResult) =>
          /\ exit_status = <<1>>
          /\ caught = NoValidMeals
          /\ Cardinality(Attempts("failure")) = 1
          /\ Attempts("plan") = {}
          /\ csv = csv_at_entry
    /\ program = "meal_regenerator" =>
          /\ exit_status \in {NoCode, <<0>>}
          /\ pc = "exited" <=> exit_status = <<0>>
          /\ (pc = "exited" /\ EmptyResult) =>
                caught = NoOutcome /\ csv = csv_at_entry /\ mail = <<>>
          /\ (pc = "exited" /\ ~UsableResult) => (csv = csv_at_entry /\ mail = <<>>)
          /\ csv # csv_at_entry => (UsableResult /\ pc \in FromOverwriteOn)
          /\ mail # <<>> =>
                /\ UsableResult
                /\ mail \in {<<[kind |-> "revised", ok |-> b]>> : b \in SendOutcomes}
                /\ csv = OverwriteMealPlan(csv_at_entry, valid.val.items, date)

\* the regenerator read a reply, the CLI answered {"meals": []}, and the run
\* ended with status 0, nothing caught, nothing written and nothing sent
C21_Witness ==
    /\ program = "meal_regenerator"
    /\ pc = "exited"
    /\ replies = <<LINE_FEEDBACK>>
    /\ outcome = Returned(P_EMPTY)
    /\ EmptyResult
    /\ exit_status = <<0>>
    /\ caught = NoOutcome
    /\ csv = csv_at_entry /\ csv.exists
    /\ mail = <<>>

\* the run applied the feedback: the file was overwritten and the revised email sent
Applied ==
    /\ UsableResult
    /\ csv = OverwriteMealPlan(csv_at_entry, valid.val.items, date)
    /\ \E i \in Attempts("revised") : mail[i].ok

\* C25: at the end of a run of the regenerator, every reply the run stored as
\* read has been applied in that run; replies of a run that did not apply them
\* are still unread.
C25_NoFeedbackLost ==
    (program = "meal_regenerator" /\ pc = "exited") =>
        \A i \in 1..Len(inbox) : inbox[i].seen => Applied

====
